---- MODULE Spec2Model ----
(***************************************************************************)
(* Model of the inbound flow engine of JTLogistics                         *)
(* (src/common/inbound_processor.py, InboundProcessor.process and the      *)
(* helpers it calls).  One run of process() is a sequential state machine: *)
(* the variables are the locals of process(), the external world it acts   *)
(* on (remote directories, mailbox) and a few history variables that       *)
(* record what the environment answered.  Every action is one stretch of   *)
(* process() between two I/O boundaries.                                   *)
(***************************************************************************)
EXTENDS Integers, Sequences, FiniteSets, TLC

(* ----------------------------- bounds ---------------------------------- *)
MaxFiles    == 2    \* files returned by one download
MaxUnits    == 2    \* split units of one file
MaxAttempts == 3    \* largest configured retry.max_attempts

(* --------------------------- text values -------------------------------- *)
(* A text is a sequence of pieces; a piece is a run of n characters that    *)
(* come from one origin s.  Slicing and concatenation work on the lengths.  *)
Min(a, b) == IF a <= b THEN a ELSE b

Piece(s, n) == [s |-> s, n |-> n]

Str(s, n) == IF n = 0 THEN <<>> ELSE <<Piece(s, n)>>

RECURSIVE TextLen(_)
TextLen(t) == IF t = <<>> THEN 0 ELSE Head(t).n + TextLen(Tail(t))

\* python: t[:n]
RECURSIVE Slice(_, _)
Slice(t, n) ==
    IF t = <<>> \/ n <= 0 THEN <<>>
    ELSE IF Head(t).n >= n THEN <<Piece(Head(t).s, n)>>
    ELSE <<Head(t)>> \o Slice(Tail(t), n - Head(t).n)

\* python truthiness of a str
TextTruthy(t) == TextLen(t) > 0

EmptyText == <<>>

(* ------------------------- names and patterns --------------------------- *)
(* File names and the start_pattern are sequences of characters.            *)
Lower(c) ==
    CASE c = "O" -> "o"
      [] c = "R" -> "r"
      [] c = "D" -> "d"
      [] OTHER   -> c

LowerStr(s) == [i \in 1..Len(s) |-> Lower(s[i])]

\* python: s.strip()
RECURSIVE LStrip(_)
LStrip(s) == IF s # <<>> /\ Head(s) = " " THEN LStrip(Tail(s)) ELSE s

RECURSIVE RStrip(_)
RStrip(s) ==
    IF s # <<>> /\ s[Len(s)] = " " THEN RStrip(SubSeq(s, 1, Len(s) - 1)) ELSE s

Strip(s) == LStrip(RStrip(s))

\* python: s.startswith(p)
StartsWith(s, p) == Len(p) <= Len(s) /\ SubSeq(s, 1, Len(p)) = p

\* start_pattern absent from the flow (flow_cfg.get returns None)
NoPattern == <<>>

\* file names a partner may drop, in directory-listing order
Names == << <<"x", "y", "z">>, <<"O", "R", "D", "1">>, <<"o", "r", "d", "2">> >>

Patterns == { NoPattern, <<" ", "O", "r", "d">> }

\* the lists a download can return: nothing (the directory is empty), or the
\* first MaxFiles files of the listing
Downloads == { SubSeq(Names, 1, n) : n \in {0, Min(MaxFiles, Len(Names))} }

\* variant: the comparison keeps case and surrounding blanks
MatchesStartPattern_Exact(filename, pattern) ==
    IF pattern = <<>> THEN TRUE
    ELSE StartsWith(filename, pattern)

\* InboundProcessor._matches_start_pattern
MatchesStartPattern(filename, pattern) ==
    IF pattern = <<>> THEN TRUE
    ELSE StartsWith(LowerStr(Strip(filename)), LowerStr(Strip(pattern)))

\* variant: the files that pass the filter, the last one first
RECURSIVE FilterFiles_LastFirst(_, _)
FilterFiles_LastFirst(fs, pattern) ==
    IF fs = <<>> THEN <<>>
    ELSE FilterFiles_LastFirst(Tail(fs), pattern)
            \o (IF MatchesStartPattern(Head(fs), pattern) THEN <<Head(fs)>> ELSE <<>>)

\* the list comprehension of process(): the files that pass the filter, in order
RECURSIVE FilterFiles(_, _)
FilterFiles(fs, pattern) ==
    IF fs = <<>> THEN <<>>
    ELSE (IF MatchesStartPattern(Head(fs), pattern) THEN <<Head(fs)>> ELSE <<>>)
            \o FilterFiles(Tail(fs), pattern)

(* ------------------------- endpoint and HTTP ---------------------------- *)
\* status_code = None
NoStatus == 0

\* what one requests.post call can produce: a response or a raised exception
Statuses == {200, 304, 500}

Body(st) ==
    CASE st = 200 -> Str(<<"body", 200>>, 12)
      [] st = 304 -> EmptyText
      [] OTHER    -> Str(<<"body", st>>, 2500)

Outcomes == [kind : {"resp"}, status : Statuses] \cup { [kind |-> "exc", status |-> NoStatus] }

\* requests.Response.ok: raise_for_status() raises for 400..599 and for nothing else
RespOk(st) == ~(400 <= st /\ st < 600)

\* the test the processor writes out: status_code and 200 <= status_code < 300
Is2xx(st) == st # NoStatus /\ 200 <= st /\ st < 300

\* the largest response excerpt the processor keeps (the [:2000] slices)
ExcerptLen == 2000

\* last_exception = None
NoException == <<Piece(<<"None", 0>>, 0)>>

\* str(Exception(f"HTTP {status_code}: {response_text[:2000]}"))
HttpError(st, text) == Str(<<"HTTP", st>>, 10) \o Slice(text, ExcerptLen)

\* str() of the exception requests.post raised (timeout, connection error)
PostError == Str(<<"post_err", 0>>, 30)

(* ------------------------------ converter ------------------------------- *)
\* order_id = None: the payload carries no order id
NoOrderId == <<>>

\* the '-' shown in a notification row
Dash == <<0>>

Artifact(u, j, exists, hasId) ==
    [unit |-> u, no |-> j, exists |-> exists,
     order_id |-> IF hasId THEN <<u, j>> ELSE NoOrderId]

\* what conv.convert(piece, out_dir) can do with unit u: raise, return nothing,
\* return one path (present or not on disk), or return a list of two paths, the
\* first of a payload without an order id and the second not on disk
ConvResults(u) ==
    { [raised |-> TRUE,  paths |-> <<>>],
      [raised |-> FALSE, paths |-> <<>>],
      [raised |-> FALSE, paths |-> <<Artifact(u, 1, TRUE, TRUE)>>],
      [raised |-> FALSE, paths |-> <<Artifact(u, 1, FALSE, TRUE)>>],
      [raised |-> FALSE, paths |-> <<Artifact(u, 1, TRUE, FALSE), Artifact(u, 2, FALSE, TRUE)>>] }

ConvError(u)    == Str(<<"convert raised", u>>, 40)
NoJsonError(u)  == Str(<<"Converter returned no JSON", u>>, 50)
NotFoundError(a) == Str(<<"Converter output file not found", a.unit>>, 60)

\* str() of the OSError os.makedirs(response_dir) raised
ResponseDirError == Str(<<"makedirs", 0>>, 20)

(* ----------------------------- response log ---------------------------- *)
\* no response file was opened for the artifact at hand
NoRecord == [written |-> FALSE, tried |-> FALSE, status |-> NoStatus, body |-> EmptyText]

\* open(rpath, 'w') or rf.write raised: the error is logged and nothing else happens
WriteFailed == [written |-> FALSE, tried |-> TRUE, status |-> NoStatus, body |-> EmptyText]

\* variant: the response file is written for failed POSTs only
LogRecord_OnlyFailures(st, text) ==
    IF Is2xx(st) THEN NoRecord
    ELSE [written |-> TRUE, tried |-> TRUE, status |-> st, body |-> text]

\* rf.write(f"status_code: {status_code}\n\n{response_text}"), line 402
LogRecord(st, text) == [written |-> TRUE, tried |-> TRUE, status |-> st, body |-> text]

(* -------------------------------- state --------------------------------- *)
VARIABLES
    flow,               \* the flow definition read at the start of process()
    pc,                 \* position in process()
    files,              \* files returned by the download
    matched_files,      \* files that passed the start_pattern filter
    fi,                 \* index in matched_files of the file being processed
    success,            \* per file: recorded outcome
    splits,             \* per file: the units (pieces) to process
    split_raised,       \* per file: the split (or its setup) raised
    pi,                 \* index in splits of the piece being processed
    http_status_ok,     \* per file
    email_rows,         \* per file
    full_response_text, \* per file, a list of the appended blocks
    json_paths,         \* per piece: resolved converter output
    ji,                 \* index in json_paths
    order_id,           \* per artifact
    attempt,            \* per artifact
    status_code,        \* per artifact
    response_text,      \* per artifact
    last_exception,     \* per artifact
    posts,              \* history: per POST attempt of this artifact, answered 2xx or not
    sleeps,             \* history: time.sleep calls made for this artifact
    unit_hist,          \* history: per finished unit of this file, what happened
    unit_cur,           \* history: the same for the unit in progress
    remote,             \* remote directories that hold the file being processed
    move_ops,           \* history: SFTP operations of this file's move and their result
    sent,               \* emails handed to EmailNotifier.send for this file
    response_log        \* the response file written for the artifact just recorded

vars == << flow, pc, files, matched_files, fi, success, splits, split_raised, pi,
           http_status_ok, email_rows, full_response_text, json_paths, ji, order_id,
           attempt, status_code, response_text, last_exception, posts, sleeps,
           unit_hist, unit_cur, remote, move_ops, sent, response_log >>

runVars   == << flow, files, matched_files >>
fileVars  == << success, splits, split_raised, http_status_ok, email_rows,
                full_response_text >>
pieceVars == << json_paths, ji >>
postVars  == << order_id, attempt, status_code, response_text, last_exception,
                posts, sleeps >>
worldVars == << remote, move_ops, sent >>

(* ------------------- state of the library functions -------------------- *)
(* FileSplitter.split_by_field is modelled as a machine of its own, one step *)
(* per line read; while process() runs it is off, and the other way round.   *)
VARIABLES
    sp_pc,              \* position in split_by_field
    sp_src,             \* the lines of the input file
    sp_field,           \* <<start, end>>, 1-based
    sp_i,               \* lines taken from the file so far (enumerate index)
    current_order,
    buffer,
    created_files,      \* the list returned
    sp_disk,            \* out_dir: file name -> lines written
    sp_pi,              \* pieces of the returned list the processor has handled
    handed              \* history: per piece, the lines the converter found at its path

splitterVars == << sp_pc, sp_src, sp_field, sp_i, current_order, buffer, created_files,
                   sp_disk, sp_pi, handed >>

\* current_order = None
NoOrder == <<"None", 0>>

\* out_dir holds no split file yet
EmptyDir == [name \in {} |-> <<>>]

SplitterFresh ==
    /\ sp_i = 0
    /\ current_order = NoOrder
    /\ buffer = <<>>
    /\ created_files = <<>>
    /\ sp_disk = EmptyDir
    /\ sp_pi = 0
    /\ handed = <<>>

SplitterOff ==
    /\ sp_pc = "off"
    /\ sp_src = <<>>
    /\ sp_field = <<1, 1>>
    /\ SplitterFresh

(* the fixed-width slice of the converters, applied once to drawn arguments *)
VARIABLES
    sl_pc,
    sl_line,            \* the line (text) argument
    sl_start,           \* 1-based first position
    sl_end,             \* 1-based last position, inclusive
    sl_out,             \* what GNCOrders_Converter._slice returned
    sl_out_fc           \* what ASNConverter._parse_fixed returned

sliceVars == << sl_pc, sl_line, sl_start, sl_end, sl_out, sl_out_fc >>

SliceOff ==
    /\ sl_pc = "off"
    /\ sl_line = <<>>
    /\ sl_start = 1
    /\ sl_end = 1
    /\ sl_out = <<>>
    /\ sl_out_fc = <<>>

(* the packaging selection of the order converters, applied to a drawn list *)
VARIABLES
    pk_pc,
    pk_cands,           \* the packagings list of the first material of the response
    pk_gnc,             \* what the GNC converter selected
    pk_fc               \* what the FC converter selected

packVars == << pk_pc, pk_cands, pk_gnc, pk_fc >>

PackOff ==
    /\ pk_pc = "off"
    /\ pk_cands = <<>>
    /\ pk_gnc = <<>>
    /\ pk_fc = <<>>

(* convert() of the order converters: the loop over the order lines with its *)
(* material lookups and its per-conversion cache                              *)
VARIABLES
    cv_pc,
    cv_conv,                    \* which converter runs: "GNC" or "FC"
    cv_call,                    \* number of the convert() invocation
    cv_lines,                   \* PRTNUM of the order lines of the file
    cv_i,                       \* order lines handled so far
    material_packaging_cache,   \* key -> packaging
    order_lines,                \* packaging of the order lines emitted
    cv_lookups,                 \* history: requests.post calls of this invocation
    cv_prev                     \* history: keys looked up by earlier invocations

convVars == << cv_pc, cv_conv, cv_call, cv_lines, cv_i, material_packaging_cache,
               order_lines, cv_lookups, cv_prev >>

\* material_packaging_cache = {}
EmptyCache == [k \in {} |-> <<>>]

ConvOff ==
    /\ cv_pc = "off"
    /\ cv_conv = "GNC"
    /\ cv_call = 0
    /\ cv_lines = <<>>
    /\ cv_i = 0
    /\ material_packaging_cache = EmptyCache
    /\ order_lines = <<>>
    /\ cv_lookups = <<>>
    /\ cv_prev = {}

(* OAuthClient: the token cache, the clock and the step that asks for headers *)
VARIABLES
    tk_pc,
    tk_now,         \* time.time()
    tk_cache,       \* self._cache
    tk_file,        \* content of self.cache_file
    tk_issued,      \* history: issue time and lifetime of every token issued
    tk_last         \* history: the last call of the step and what it did

tokenVars == << tk_pc, tk_now, tk_cache, tk_file, tk_issued, tk_last >>

\* self._cache = None
NotLoaded == [state |-> "none", access_token |-> 0, expires_at |-> 0]

\* self._cache = {} ; also a cache file that does not exist
EmptyDict == [state |-> "empty", access_token |-> 0, expires_at |-> 0]

\* {'access_token': ..., 'expires_at': ...}
TokenData(token, expires) == [state |-> "token", access_token |-> token, expires_at |-> expires]

NoCall ==
    [kind |-> "none", token |-> 0, at |-> 0, had |-> NotLoaded, exchanges |-> 0,
     stored |-> NotLoaded, bearer |-> FALSE, sent |-> FALSE]

TokenOff ==
    /\ tk_pc = "off"
    /\ tk_now = 0
    /\ tk_cache = NotLoaded
    /\ tk_file = EmptyDict
    /\ tk_issued = <<>>
    /\ tk_last = NoCall

(* DateRangeUpdater.update_payload_file: the payload file and the clock *)
VARIABLES
    dt_pc,
    dt_today,       \* date of the first datetime.utcnow()
    dt_rolled,      \* the second datetime.utcnow() fell on the next day
    dt_data,        \* the payload document read from the file
    dt_out          \* the payload document written back

dateVars == << dt_pc, dt_today, dt_rolled, dt_data, dt_out >>

NoDate == [y |-> 0, m |-> 0, d |-> 0]

NoDocument == [k \in {} |-> <<>>]

DateOff ==
    /\ dt_pc = "off"
    /\ dt_today = NoDate
    /\ dt_rolled = FALSE
    /\ dt_data = NoDocument
    /\ dt_out = NoDocument

(* run.py main, Orchestrator.run and OutboundProcessor.process *)
VARIABLES
    ob_pc,
    ob_in,              \* command line and flow configuration of the invocation
    ob_end,             \* history: how the flow invocation ended
    ob_exit,            \* what main returned, once it has
    ob_api_calls,       \* history: requests made to the flow's API
    ob_status,          \* status_code of the API response
    ob_artifact,        \* what converter.convert left behind
    ob_delivery,        \* history: what was tried to deliver the artifact
    generated_files,
    ob_emails           \* history: calls of email.send

outVars == << ob_pc, ob_in, ob_end, ob_exit, ob_api_calls, ob_status, ob_artifact,
              ob_delivery, generated_files, ob_emails >>

NoInput ==
    [args |-> 0, direction |-> "inbound", converter |-> "ok", payload |-> "ok",
     api |-> FALSE, use_sftp |-> FALSE, max_attempts |-> 1]

\* converter.convert has not run
NoArtifact == [path |-> FALSE, exists |-> FALSE, lines |-> <<>>]

NoDelivery == [sftp |-> "none", fallback |-> "none"]

OutOff ==
    /\ ob_pc = "off"
    /\ ob_in = NoInput
    /\ ob_end = "none"
    /\ ob_exit = <<>>
    /\ ob_api_calls = 0
    /\ ob_status = NoStatus
    /\ ob_artifact = NoArtifact
    /\ ob_delivery = NoDelivery
    /\ generated_files = <<>>
    /\ ob_emails = <<>>

(* OAuthClient.get_token called by two callers that share one client *)
VARIABLES
    rc_pc,          \* where each caller is inside get_token
    rc_mode,        \* "sequential": one call at a time; "interleaved": any order
    rc_now,         \* time.time()
    rc_cache,       \* self._cache
    rc_pending,     \* the cache record each caller is about to save
    rc_issued,      \* history: tokens issued by the token endpoint
    rc_returned,    \* history: the token each caller got from its last call
    rc_dups,        \* history: saves that replaced a token that had not expired
    rc_writer       \* history: the token of the last save

raceVars == << rc_pc, rc_mode, rc_now, rc_cache, rc_pending, rc_issued, rc_returned,
               rc_dups, rc_writer >>

Callers == {1, 2}

RaceOff ==
    /\ rc_pc = [c \in Callers |-> "off"]
    /\ rc_mode = "sequential"
    /\ rc_now = 0
    /\ rc_cache = EmptyDict
    /\ rc_pending = [c \in Callers |-> EmptyDict]
    /\ rc_issued = 0
    /\ rc_returned = [c \in Callers |-> 0]
    /\ rc_dups = 0
    /\ rc_writer = 0

(* InboundProcessor.process: the split directory over the files of a run *)
VARIABLES
    cl_pc,
    cl_fi,                  \* number of the file in the loop over matched_files
    cl_splits,              \* splits: the unit files of the current file
    cl_pi,                  \* pieces handled so far
    created_split_out,      \* set once the splitter has returned
    cl_dir,                 \* in_tmp/splits: unit file name -> file it was cut from
    cl_outcomes             \* history: how the pieces of the current file ended

cleanVars == << cl_pc, cl_fi, cl_splits, cl_pi, created_split_out, cl_dir, cl_outcomes >>

EmptySplitDir == [n \in {} |-> 0]

CleanOff ==
    /\ cl_pc = "off"
    /\ cl_fi = 0
    /\ cl_splits = <<>>
    /\ cl_pi = 0
    /\ created_split_out = FALSE
    /\ cl_dir = EmptySplitDir
    /\ cl_outcomes = <<>>

Flows ==
    [ use_sftp      : BOOLEAN,
      split_enabled : BOOLEAN,
      email_enabled : BOOLEAN,
      api           : BOOLEAN,
      max_attempts  : 0..MaxAttempts,
      start_pattern : Patterns ]

NoUnit == [unit |-> 0, raised |-> FALSE, arts |-> <<>>]

\* the locals of process() before anything is assigned
ProcessFresh ==
    /\ files = <<>>
    /\ matched_files = <<>>
    /\ fi = 0
    /\ success = TRUE
    /\ splits = <<>>
    /\ split_raised = FALSE
    /\ pi = 0
    /\ http_status_ok = TRUE
    /\ email_rows = <<>>
    /\ full_response_text = <<>>
    /\ json_paths = <<>>
    /\ ji = 0
    /\ order_id = NoOrderId
    /\ attempt = 0
    /\ status_code = NoStatus
    /\ response_text = EmptyText
    /\ last_exception = NoException
    /\ posts = <<>>
    /\ sleeps = 0
    /\ unit_hist = <<>>
    /\ unit_cur = NoUnit
    /\ remote = {}
    /\ move_ops = <<>>
    /\ sent = <<>>
    /\ response_log = NoRecord

\* process() is not running
ProcessOff ==
    /\ flow = [ use_sftp |-> FALSE, split_enabled |-> FALSE, email_enabled |-> FALSE,
                api |-> FALSE, max_attempts |-> 1, start_pattern |-> NoPattern ]
    /\ pc = "off"
    /\ ProcessFresh

(* ------------------------------ plumbing ------------------------------- *)
\* the machines of this module run one at a time: what each leaves alone
libVars == << splitterVars, sliceVars, packVars, convVars, tokenVars, dateVars, outVars, raceVars, cleanVars >>

LibOff == SplitterOff /\ SliceOff /\ PackOff /\ ConvOff /\ TokenOff /\ DateOff /\ OutOff /\ RaceOff /\ CleanOff

outsideSplitter == << vars, sliceVars, packVars, convVars, tokenVars, dateVars, outVars, raceVars, cleanVars >>

OnlySplitter == ProcessOff /\ SliceOff /\ PackOff /\ ConvOff /\ TokenOff /\ DateOff /\ OutOff /\ RaceOff /\ CleanOff

outsideSlice == << vars, splitterVars, packVars, convVars, tokenVars, dateVars, outVars, raceVars, cleanVars >>

OnlySlice == ProcessOff /\ SplitterOff /\ PackOff /\ ConvOff /\ TokenOff /\ DateOff /\ OutOff /\ RaceOff /\ CleanOff

outsidePack == << vars, splitterVars, sliceVars, convVars, tokenVars, dateVars, outVars, raceVars, cleanVars >>

OnlyPack == ProcessOff /\ SplitterOff /\ SliceOff /\ ConvOff /\ TokenOff /\ DateOff /\ OutOff /\ RaceOff /\ CleanOff

outsideConv == << vars, splitterVars, sliceVars, packVars, tokenVars, dateVars, outVars, raceVars, cleanVars >>

OnlyConv == ProcessOff /\ SplitterOff /\ SliceOff /\ PackOff /\ TokenOff /\ DateOff /\ OutOff /\ RaceOff /\ CleanOff

outsideToken == << vars, splitterVars, sliceVars, packVars, convVars, dateVars, outVars, raceVars, cleanVars >>

OnlyToken == ProcessOff /\ SplitterOff /\ SliceOff /\ PackOff /\ ConvOff /\ DateOff /\ OutOff /\ RaceOff /\ CleanOff

outsideDate == << vars, splitterVars, sliceVars, packVars, convVars, tokenVars, outVars, raceVars, cleanVars >>

OnlyDate == ProcessOff /\ SplitterOff /\ SliceOff /\ PackOff /\ ConvOff /\ TokenOff /\ OutOff /\ RaceOff /\ CleanOff

outsideOut == << vars, splitterVars, sliceVars, packVars, convVars, tokenVars, dateVars, raceVars, cleanVars >>

OnlyOut == ProcessOff /\ SplitterOff /\ SliceOff /\ PackOff /\ ConvOff /\ TokenOff /\ DateOff /\ RaceOff /\ CleanOff

outsideRace == << vars, splitterVars, sliceVars, packVars, convVars, tokenVars, dateVars, outVars, cleanVars >>

OnlyRace == ProcessOff /\ SplitterOff /\ SliceOff /\ PackOff /\ ConvOff /\ TokenOff /\ DateOff /\ OutOff /\ CleanOff

outsideClean == << vars, splitterVars, sliceVars, packVars, convVars, tokenVars, dateVars, outVars, raceVars >>

OnlyClean == ProcessOff /\ SplitterOff /\ SliceOff /\ PackOff /\ ConvOff /\ TokenOff /\ DateOff /\ OutOff /\ RaceOff

(* --------------------------- end of plumbing --------------------------- *)

Init ==
    /\ flow \in { f \in Flows : ~f.api => f.max_attempts = 1 }
    /\ pc = "start"
    /\ ProcessFresh
    /\ LibOff

(* ------------------------------ the run --------------------------------- *)
\* process(), lines 254-279: download, normalise, filter
Fetch ==
    /\ pc = "start"
    /\ \E l \in Downloads :
          /\ files' = l
          /\ matched_files' = FilterFiles(l, flow.start_pattern)
    /\ pc' = IF matched_files' = <<>> THEN "done" ELSE "file"
    /\ UNCHANGED << libVars, flow, fi, fileVars, pi, pieceVars, postVars, unit_hist, unit_cur,
                    worldVars, response_log >>

\* for fp in matched_files: the per-file locals, lines 281-288
BeginFile ==
    /\ pc = "file"
    /\ fi < Len(matched_files)
    /\ fi' = fi + 1
    /\ success' = TRUE
    /\ splits' = <<1>>
    /\ split_raised' = FALSE
    /\ pi' = 0
    /\ http_status_ok' = TRUE
    /\ email_rows' = <<>>
    /\ full_response_text' = <<>>
    /\ unit_hist' = <<>>
    /\ remote' = {"Incoming"}
    /\ move_ops' = <<>>
    /\ sent' = <<>>
    /\ pc' = IF flow.split_enabled THEN "split" ELSE "piece"
    /\ UNCHANGED << libVars, runVars, pieceVars, postVars, unit_cur, response_log >>

\* lines 292-298; an exception lands in the handler of lines 435-437
Split ==
    /\ pc = "split"
    /\ \/ /\ \E n \in 0..MaxUnits : splits' = [u \in 1..n |-> u]
          /\ pc' = "piece"
          /\ UNCHANGED << success, split_raised >>
       \/ /\ success' = FALSE
          /\ split_raised' = TRUE
          /\ pc' = "move"
          /\ UNCHANGED splits
    /\ UNCHANGED << libVars, runVars, fi, pi, http_status_ok, email_rows, full_response_text,
                    pieceVars, postVars, unit_hist, unit_cur, worldVars, response_log >>

\* variant: the response is put in the row whole
PostedRow_Whole(oid, st, text) ==
    [ order_id |-> IF oid = NoOrderId THEN Dash ELSE oid,
      status   |-> IF Is2xx(st) THEN "Success" ELSE "Failed",
      response |-> IF Is2xx(st) THEN Str(<<"Success", 0>>, 7) ELSE text ]

\* the row of lines 408-412
PostedRow(oid, st, text) ==
    [ order_id |-> IF oid = NoOrderId THEN Dash ELSE oid,
      status   |-> IF Is2xx(st) THEN "Success" ELSE "Failed",
      response |-> IF Is2xx(st) THEN Str(<<"Success", 0>>, 7)
                   ELSE IF TextTruthy(text) THEN Slice(text, ExcerptLen) ELSE EmptyText ]

\* the row of line 422
ErrorRow(text) ==
    [ order_id |-> Dash, status |-> "Failed", response |-> Slice(text, ExcerptLen) ]

\* variant: a failed piece ends the loop over the pieces
PieceError_Abort(u, arts, text, nextPi) ==
    /\ http_status_ok' = FALSE
    /\ email_rows' = IF flow.split_enabled THEN Append(email_rows, ErrorRow(text))
                     ELSE email_rows
    /\ unit_cur' = NoUnit
    /\ unit_hist' = Append(unit_hist, [unit |-> u, raised |-> TRUE, arts |-> arts])
    /\ pi' = Len(splits)
    /\ json_paths' = <<>>
    /\ ji' = 0
    /\ response_log' = NoRecord
    /\ pc' = "piece"

\* except Exception as piece_err / finally, lines 417-430: the piece is marked
\* failed, gets its row when splitting is on, and the loop goes on with piece nextPi + 1
PieceError(u, arts, text, nextPi) ==
    /\ http_status_ok' = FALSE
    /\ email_rows' = IF flow.split_enabled THEN Append(email_rows, ErrorRow(text))
                     ELSE email_rows
    /\ unit_cur' = NoUnit
    /\ unit_hist' = Append(unit_hist, [unit |-> u, raised |-> TRUE, arts |-> arts])
    /\ pi' = nextPi
    /\ json_paths' = <<>>
    /\ ji' = 0
    /\ response_log' = NoRecord
    /\ pc' = "piece"

\* for piece in splits: convert the piece, lines 301-311
Convert ==
    /\ pc = "piece"
    /\ pi < Len(splits)
    /\ LET u == splits[pi + 1] IN
       \E r \in ConvResults(u) :
          \/ /\ r.raised
             /\ PieceError(u, <<>>, ConvError(u), pi + 1)
          \/ /\ ~r.raised
             /\ r.paths = <<>>
             /\ PieceError(u, <<>>, NoJsonError(u), pi + 1)
          \/ /\ ~r.raised
             /\ r.paths # <<>>
             /\ json_paths' = r.paths
             /\ ji' = 0
             /\ pi' = pi + 1
             /\ unit_cur' = [unit |-> u, raised |-> FALSE, arts |-> <<>>]
             /\ pc' = "artifact"
             /\ UNCHANGED << http_status_ok, email_rows, unit_hist, response_log >>
    /\ UNCHANGED << libVars, runVars, fi, success, splits, split_raised, full_response_text,
                    postVars, worldVars >>

\* for json_path in json_paths: lines 314-359, up to the first POST attempt
OpenArtifact ==
    /\ pc = "artifact"
    /\ ji < Len(json_paths)
    /\ LET a == json_paths[ji + 1] IN
          \/ /\ ~a.exists
             /\ PieceError(unit_cur.unit, unit_cur.arts, NotFoundError(a), pi)
             /\ UNCHANGED postVars
          \/ /\ a.exists
             /\ ji' = ji + 1
             /\ order_id' = a.order_id
             /\ response_text' = EmptyText
             /\ status_code' = NoStatus
             /\ attempt' = 0
             /\ last_exception' = NoException
             /\ posts' = <<>>
             /\ sleeps' = 0
             /\ response_log' = NoRecord
             /\ pc' = IF flow.api /\ 0 < flow.max_attempts THEN "post" ELSE "record"
             /\ UNCHANGED << http_status_ok, email_rows, unit_cur, unit_hist, pi,
                             json_paths >>
    /\ UNCHANGED << libVars, runVars, fi, success, splits, split_raised, full_response_text,
                    worldVars >>

\* variant: a failed attempt is always followed by one more
AfterFailedAttempt_Again ==
    /\ sleeps' = sleeps + 1
    /\ pc' = "post"

\* the tail of one pass of the retry loop, lines 384-385 and the loop test of 361
AfterFailedAttempt ==
    IF attempt' < flow.max_attempts
    THEN /\ sleeps' = sleeps + 1
         /\ pc' = "post"
    ELSE /\ sleeps' = sleeps
         /\ pc' = "record"

\* one pass of while attempt < max_attempts, lines 361-385
Post ==
    /\ pc = "post"
    /\ attempt < flow.max_attempts
    /\ attempt' = attempt + 1
    /\ \E o \in Outcomes :
          /\ posts' = Append(posts, o.kind = "resp" /\ Is2xx(o.status))
          /\ \/ /\ o.kind = "resp"
                /\ status_code' = o.status
                /\ response_text' = Body(o.status)
                /\ IF RespOk(o.status)
                   THEN /\ pc' = "record"
                        /\ UNCHANGED << last_exception, sleeps >>
                   ELSE /\ last_exception' = HttpError(o.status, Body(o.status))
                        /\ AfterFailedAttempt
             \/ /\ o.kind = "exc"
                /\ last_exception' = PostError
                /\ AfterFailedAttempt
                /\ UNCHANGED << status_code, response_text >>
    /\ UNCHANGED << libVars, runVars, fi, fileVars, pi, pieceVars, order_id, unit_hist, unit_cur,
                    worldVars, response_log >>

\* some POST attempt of the artifact was answered with a 2xx status
Got2xx(log) == \E i \in 1..Len(log) : log[i]

\* the locals of one artifact are assigned afresh (lines 334-359) before they are
\* read again: they leave the state once the artifact is recorded
ArtifactLocalsDead ==
    /\ order_id' = NoOrderId
    /\ attempt' = 0
    /\ status_code' = NoStatus
    /\ response_text' = EmptyText
    /\ last_exception' = NoException
    /\ posts' = <<>>
    /\ sleeps' = 0

\* lines 387-391: the artifact's POST counts as failed
PostFailed ==
    flow.api /\ last_exception # NoException /\ ~Is2xx(status_code)

\* lines 387-415: outcome of the artifact, response log, notification row; when
\* the response directory cannot be made (line 396) the exception lands in the
\* handler of the piece, after the outcome of the POST was taken into account
Record ==
    /\ pc = "record"
    /\ \/ /\ LET text == IF PostFailed /\ ~TextTruthy(response_text) THEN last_exception
                          ELSE response_text
              IN  /\ http_status_ok' = IF PostFailed THEN FALSE ELSE http_status_ok
                  /\ \E wrote \in BOOLEAN :
                        response_log' = IF wrote THEN LogRecord(status_code, text)
                                        ELSE WriteFailed
                  /\ IF flow.split_enabled
                     THEN /\ email_rows' =
                               Append(email_rows, PostedRow(order_id, status_code, text))
                          /\ UNCHANGED full_response_text
                     ELSE /\ full_response_text' =
                               IF Is2xx(status_code) THEN full_response_text
                               ELSE Append(full_response_text,
                                           [json |-> <<unit_cur.unit, ji>>,
                                            status |-> status_code, response |-> text])
                          /\ UNCHANGED email_rows
          /\ unit_cur' = [unit_cur EXCEPT !.arts =
                            Append(@, [order_id |-> order_id, got2xx |-> Got2xx(posts)])]
          /\ pc' = "artifact"
          /\ UNCHANGED << pi, pieceVars, unit_hist >>
       \/ /\ PieceError(unit_cur.unit, unit_cur.arts, ResponseDirError, pi)
          /\ UNCHANGED full_response_text
    /\ ArtifactLocalsDead
    /\ UNCHANGED << libVars, runVars, fi, success, splits, split_raised, worldVars >>

\* the piece's artifacts are all handled; finally of lines 423-430
EndPiece ==
    /\ pc = "artifact"
    /\ ji = Len(json_paths)
    /\ unit_hist' = Append(unit_hist, unit_cur)
    /\ unit_cur' = NoUnit
    /\ json_paths' = <<>>
    /\ ji' = 0
    /\ response_log' = NoRecord
    /\ pc' = "piece"
    /\ UNCHANGED << libVars, runVars, fi, fileVars, pi, postVars, worldVars >>

\* variant: the file is moved as soon as one unit is done
EndPieces_AfterFirstUnit ==
    /\ pc = "piece"
    /\ pi >= Min(1, Len(splits))
    /\ success' = http_status_ok
    /\ pc' = "move"
    /\ UNCHANGED << libVars, runVars, fi, splits, split_raised, http_status_ok, email_rows,
                    full_response_text, pi, pieceVars, postVars, unit_hist, unit_cur,
                    worldVars, response_log >>

\* end for pieces, line 433
EndPieces ==
    /\ pc = "piece"
    /\ pi = Len(splits)
    /\ success' = http_status_ok
    /\ pc' = "move"
    /\ UNCHANGED << libVars, runVars, fi, splits, split_raised, http_status_ok, email_rows,
                    full_response_text, pi, pieceVars, postVars, unit_hist, unit_cur,
                    worldVars, response_log >>

(* ------------------------ archive / dead-letter ------------------------- *)
\* _move_sftp_file, line 164
DestDir(ok) == IF ok THEN "Archives" ELSE "DeadLetter"

Op(name, ok) == [op |-> name, ok |-> ok]

\* the SFTP calls _move_sftp_file makes, in order, given how each one ends:
\* have - the local copy is there (already, or after a download), up - the upload
\* works, rm - the remove works, rn - the rename works
MoveOps(have, up, rm, rn) ==
    <<Op("local_copy", have)>>
    \o (IF have THEN <<Op("upload", up)>> ELSE <<>>)
    \o (IF have /\ up THEN <<Op("remove", rm)>> ELSE <<>>)
    \o (IF have /\ up /\ ~rm THEN <<Op("rename", rn)>> ELSE <<>>)

OpOk(ops, name) == \E i \in 1..Len(ops) : ops[i] = Op(name, TRUE)

OpFailed(ops, name) == \E i \in 1..Len(ops) : ops[i] = Op(name, FALSE)

OpTried(ops, name) == OpOk(ops, name) \/ OpFailed(ops, name)

\* where the file is on the remote side after the calls
RemoteAfter(dirs, dest, ops) ==
    LET put  == IF OpOk(ops, "upload") \/ OpOk(ops, "rename") THEN dirs \cup {dest} ELSE dirs
    IN  IF OpOk(ops, "remove") \/ OpOk(ops, "rename") THEN put \ {"Incoming"} ELSE put

\* variant: a file recorded as failed is left where it is
MoveSftpFile_OnlyOnSuccess(have, up, rm, rn) ==
    /\ move_ops' = IF success THEN MoveOps(have, up, rm, rn) ELSE <<>>
    /\ remote' = RemoteAfter(remote, DestDir(success), move_ops')
    /\ success' = success
    /\ pc' = "email"

\* variant: a move that fails marks the file failed, and no rename is tried
MoveSftpFile_Strict(have, up, rm, rn) ==
    /\ move_ops' = SelectSeq(MoveOps(have, up, rm, rn), LAMBDA o : o.op # "rename")
    /\ remote' = RemoteAfter(remote, DestDir(success), move_ops')
    /\ success' = (success /\ have /\ up /\ rm)
    /\ pc' = "email"

\* _move_sftp_file, lines 163-204: every exception is caught and logged
MoveSftpFile(have, up, rm, rn) ==
    /\ move_ops' = MoveOps(have, up, rm, rn)
    /\ remote' = RemoteAfter(remote, DestDir(success), move_ops')
    /\ success' = success
    /\ pc' = "email"

\* finally of lines 439-445
Move ==
    /\ pc = "move"
    /\ IF flow.use_sftp
       THEN \E have, up, rm, rn \in BOOLEAN : MoveSftpFile(have, up, rm, rn)
       ELSE /\ pc' = "email"
            /\ UNCHANGED << success, remote, move_ops >>
    /\ UNCHANGED << libVars, runVars, fi, splits, split_raised, http_status_ok, email_rows,
                    full_response_text, pi, pieceVars, postVars, unit_hist, unit_cur,
                    sent, response_log >>

(* ----------------------------- notification ----------------------------- *)
\* EmailNotifier.format_html_table: one <tr> per row, the cells in header order
FormatHtmlTable(rows) ==
    IF rows = <<>> THEN [headers |-> <<>>, trs |-> <<>>]
    ELSE [ headers |-> <<"order_id", "status", "response">>,
           trs |-> [i \in 1..Len(rows) |->
                      [order_id |-> rows[i].order_id, status |-> rows[i].status,
                       response |-> rows[i].response]] ]

\* lines 448-459: what is handed to EmailNotifier.send, which never raises
Email ==
    /\ pc = "email"
    /\ IF flow.email_enabled /\ flow.split_enabled /\ email_rows # <<>>
       THEN sent' = Append(sent, [kind |-> "table", file |-> matched_files[fi],
                                  table |-> FormatHtmlTable(email_rows),
                                  text |-> <<>>])
       ELSE IF flow.email_enabled /\ ~flow.split_enabled /\ ~success
       THEN sent' = Append(sent, [kind |-> "text", file |-> matched_files[fi],
                                  table |-> FormatHtmlTable(<<>>),
                                  text |-> full_response_text])
       ELSE sent' = sent
    /\ pc' = "file"
    /\ UNCHANGED << libVars, runVars, fi, fileVars, pi, pieceVars, postVars, unit_hist, unit_cur,
                    remote, move_ops, response_log >>

\* the file loop is over; cleanup of lines 461-468
Finish ==
    /\ pc = "file"
    /\ fi = Len(matched_files)
    /\ pc' = "done"
    /\ UNCHANGED << libVars, runVars, fi, fileVars, pi, pieceVars, postVars, unit_hist, unit_cur,
                    worldVars, response_log >>

Next ==
    \/ Fetch
    \/ BeginFile
    \/ Split
    \/ Convert
    \/ OpenArtifact
    \/ Post
    \/ Record
    \/ EndPiece
    \/ EndPieces
    \/ Move
    \/ Email
    \/ Finish

Spec == Init /\ [][Next]_vars

TypeOK ==
    /\ pc \in {"start", "file", "split", "piece", "artifact", "post", "record", "move",
               "email", "done"}
    /\ fi \in 0..Len(matched_files)
    /\ pi \in 0..Len(splits)
    /\ attempt \in 0..MaxAttempts

(* ============================ FileSplitter ============================== *)
\* lines of the input file that one call looks at
MaxLines == 5

\* a header comment, a blank line, the end-of-transmission marker, and order lines
\* of two orders
SplitLines ==
    { <<"#", "h">>, <<" ">>, <<"#", "E", "O", "T">>,
      <<"A", "1">>, <<"A", "2">>, <<"B", "1">> }

\* <<start, end>> of the order number field
SplitFields == { <<1, 1>>, <<1, 2>> }

SplitInputs == UNION { [1..n -> SplitLines] : n \in 0..MaxLines }

\* python: line[start-1:end]
PySlice(line, start, end) == SubSeq(line, start, Min(end, Len(line)))

\* line.strip() == "#EOT"
EotMarker == <<"#", "E", "O", "T">>

IsEot(line) == Strip(line) = EotMarker

\* not line.strip()
IsBlank(line) == Strip(line) = <<>>

\* line.strip().startswith("#")
IsComment(line) == StartsWith(Strip(line), <<"#">>)

\* order_number = line[start-1:end].strip()
OrderNumber(line, field) == Strip(PySlice(line, field[1], field[2]))

\* with open(out_path, "w") as out: out.write(...): the file {name}.txt now holds
\* these lines, whatever it held before
WriteFile(disk, name, lines) ==
    [n \in DOMAIN disk \cup {name} |-> IF n = name THEN lines ELSE disk[n]]

SplitInit ==
    /\ OnlySplitter
    /\ sp_pc = "read"
    /\ sp_src \in SplitInputs
    /\ sp_field \in SplitFields
    /\ SplitterFresh

\* one pass of for i, raw in enumerate(f), lines 42-70
ReadLine ==
    /\ sp_pc = "read"
    /\ sp_i < Len(sp_src)
    /\ sp_i' = sp_i + 1
    /\ LET line == sp_src[sp_i + 1]
           order_number == OrderNumber(line, sp_field)
       IN  IF sp_i = 0 /\ IsComment(line)
           THEN UNCHANGED << sp_pc, current_order, buffer, created_files, sp_disk >>
           ELSE IF IsBlank(line)
           THEN UNCHANGED << sp_pc, current_order, buffer, created_files, sp_disk >>
           ELSE IF IsEot(line)
           THEN /\ sp_pc' = "flush"
                /\ UNCHANGED << current_order, buffer, created_files, sp_disk >>
           ELSE IF current_order = NoOrder
           THEN /\ current_order' = order_number
                /\ buffer' = Append(buffer, line)
                /\ UNCHANGED << sp_pc, created_files, sp_disk >>
           ELSE IF order_number = current_order
           THEN /\ buffer' = Append(buffer, line)
                /\ UNCHANGED << sp_pc, current_order, created_files, sp_disk >>
           ELSE /\ sp_disk' = WriteFile(sp_disk, current_order, buffer)
                /\ created_files' = Append(created_files, current_order)
                /\ current_order' = order_number
                /\ buffer' = <<line>>
                /\ UNCHANGED sp_pc
    /\ UNCHANGED << outsideSplitter, sp_src, sp_field, sp_pi, handed >>

\* after the loop, lines 72-80: write the last buffer if any, return created_files
FlushLast ==
    /\ \/ sp_pc = "flush"
       \/ sp_pc = "read" /\ sp_i = Len(sp_src)
    /\ IF buffer # <<>>
       THEN /\ sp_disk' = WriteFile(sp_disk, current_order, buffer)
            /\ created_files' = Append(created_files, current_order)
       ELSE UNCHANGED << sp_disk, created_files >>
    /\ sp_pc' = "done"
    /\ UNCHANGED << outsideSplitter, sp_src, sp_field, sp_i, current_order, buffer,
                    sp_pi, handed >>

\* os.remove(piece): the file is gone from out_dir
RemoveFile(disk, name) == [n \in DOMAIN disk \ {name} |-> disk[n]]

\* what a reader of {name}.txt gets: its lines, or nothing when there is no such file
ReadPiece(disk, name) == IF name \in DOMAIN disk THEN disk[name] ELSE <<>>

\* the processor's loop over the returned paths, one pass: conv.convert(piece, ...)
\* reads the file the path names, and the finally block removes that file if it is
\* there; a failed os.remove is passed over
HandToConverter ==
    /\ sp_pc \in {"done", "pieces"}
    /\ sp_pi < Len(created_files)
    /\ sp_pi' = sp_pi + 1
    /\ sp_pc' = "pieces"
    /\ LET piece == created_files[sp_pi + 1] IN
          /\ handed' = Append(handed, ReadPiece(sp_disk, piece))
          /\ \E removed \in BOOLEAN :
                sp_disk' = IF removed THEN RemoveFile(sp_disk, piece) ELSE sp_disk
    /\ UNCHANGED << outsideSplitter, sp_src, sp_field, sp_i, current_order, buffer,
                    created_files >>

\* the loop over the pieces is over
PiecesDone ==
    /\ sp_pc \in {"done", "pieces"}
    /\ sp_pi = Len(created_files)
    /\ sp_pc' = "handed"
    /\ UNCHANGED << outsideSplitter, sp_src, sp_field, sp_i, current_order, buffer,
                    created_files, sp_disk, sp_pi, handed >>

SplitNext ==
    \/ ReadLine
    \/ FlushLast
    \/ HandToConverter
    \/ PiecesDone

SplitSpec == SplitInit /\ [][SplitNext]_splitterVars

(* ========================= properties of the run ======================== *)
Last(q) == q[Len(q)]

\* the flow posts: it has an api section and allows at least one attempt
Posting == flow.api /\ flow.max_attempts >= 1

\* a unit succeeded in conversion and in posting: the converter returned artifacts,
\* nothing raised, and every artifact was answered with a 2xx status
UnitSucceeded(h) ==
    /\ ~h.raised
    /\ h.arts # <<>>
    /\ \A j \in 1..Len(h.arts) : h.arts[j].got2xx

AllUnitsSucceeded == \A i \in 1..Len(unit_hist) : UnitSucceeded(unit_hist[i])

\* the units of the current file are all done and its outcome is recorded
FileRecorded == pc \in {"move", "email"} \/ (pc \in {"file", "done"} /\ fi >= 1)

\* C1: an attempt of the POST retry loop is successful iff its status is 2xx; every
\* other outcome (3xx included, an exception, a timeout) is a failed attempt that is
\* retried while fewer than max_attempts attempts were made, and an artifact whose
\* attempts are exhausted without a 2xx marks its unit failed.
C1_RetryUnless2xx ==
    /\ (pc = "record" /\ Posting) =>
          /\ posts # <<>>
          /\ (Got2xx(posts) \/ Len(posts) = flow.max_attempts)
          /\ (~Got2xx(posts) => PostFailed)
    /\ (pc = "artifact" /\ Posting /\ unit_cur.arts # <<>> /\ ~Last(unit_cur.arts).got2xx)
          => ~http_status_ok

\* C2: the retry loop stops right after the first 2xx and never makes more than
\* max_attempts attempts: first 2xx on attempt k gives success after exactly k
\* attempts, no 2xx gives exactly max_attempts attempts, and the delay is slept
\* between attempts only.
C2_ExactAttempts ==
    (pc = "record" /\ Posting) =>
        /\ Len(posts) >= 1
        /\ Len(posts) <= flow.max_attempts
        /\ \A k \in 1..(Len(posts) - 1) : ~posts[k]
        /\ (Got2xx(posts) => Last(posts) /\ ~PostFailed)
        /\ (~Got2xx(posts) => Len(posts) = flow.max_attempts)
        /\ sleeps = Len(posts) - 1

\* C3: the recorded outcome of a file is success iff every one of its units succeeded
\* in conversion and in posting, whatever the position of a failed unit.
C3_SuccessIffAllUnits ==
    (FileRecorded /\ pc # "done" /\ Posting /\ ~split_raised) =>
        (success <=> AllUnitsSucceeded)

\* C4: a file whose units were all answered 2xx goes to Archives and never to
\* DeadLetter; a file with a failed unit goes to DeadLetter and never to Archives.
C4_DestinationFollowsUnits ==
    (pc = "email" /\ flow.use_sftp /\ Posting /\ ~split_raised) =>
        /\ AllUnitsSucceeded =>
              /\ "DeadLetter" \notin remote
              /\ (OpOk(move_ops, "upload") => "Archives" \in remote)
        /\ ~AllUnitsSucceeded =>
              /\ "Archives" \notin remote
              /\ (OpOk(move_ops, "upload") => "DeadLetter" \in remote)

Terminal == {"Archives", "DeadLetter"}

\* C5 as stated: every file that passes the filter reaches exactly one terminal
\* state, Archived or DeadLettered, in remote and in local transfer mode.
C5_AlwaysTerminal ==
    (pc \in {"email", "file", "done"} /\ fi >= 1) =>
        Cardinality(remote \cap Terminal) = 1

\* C5 amended: in remote mode every file that passes the filter gets one move before
\* the run goes on, toward Archives if its recorded outcome is success and toward
\* DeadLetter otherwise, never toward both, whatever failed in split, conversion or
\* posting; the file is at that destination once the upload worked.  In local mode
\* no file is moved.  The run ends only after every matched file went through.
C5_OneMovePerRemoteFile ==
    /\ (pc \in {"email", "file", "done"} /\ fi >= 1) =>
          IF flow.use_sftp
          THEN /\ move_ops # <<>>
               /\ remote \cap Terminal \subseteq {IF success THEN "Archives" ELSE "DeadLetter"}
               /\ OpOk(move_ops, "upload") => remote \cap Terminal # {}
               /\ ~OpOk(move_ops, "upload") => remote = {"Incoming"}
          ELSE /\ move_ops = <<>>
               /\ remote = {"Incoming"}
    /\ pc = "done" => fi = Len(matched_files)

\* C5 witness: a file whose split raised sits in DeadLetter, and only there
C5_Witness ==
    /\ pc = "email"
    /\ flow.use_sftp
    /\ split_raised
    /\ remote = {"DeadLetter"}

\* C6: a unit's failure (conversion raised, no artifact, missing artifact, POST
\* retries exhausted) is recorded for that unit only: every later unit of the file
\* is still handed to the converter and its artifacts are still posted, and every
\* later file of the run is still processed.
C6_SiblingsContinue ==
    /\ (FileRecorded /\ ~split_raised) =>
          /\ Len(unit_hist) = Len(splits)
          /\ \A i \in 1..Len(splits) :
                /\ unit_hist[i].unit = splits[i]
                /\ (~unit_hist[i].raised => unit_hist[i].arts # <<>>)
    /\ (pc = "record" /\ Posting) => posts # <<>>
    /\ pc = "done" => fi = Len(matched_files)

\* C6 witness: the first unit's conversion raised, the second unit was converted
\* and its artifact answered with a 2xx; the file is not the first of the run
C6_Witness ==
    /\ pc = "move"
    /\ fi = 2
    /\ Posting
    /\ Len(unit_hist) = 2
    /\ unit_hist[1].raised
    /\ UnitSucceeded(unit_hist[2])
    /\ ~http_status_ok

\* C7: with email enabled, every file whose recorded outcome is failure gets a
\* notification email, with splitting on or off and whichever stage failed.
C7_FailureNotified ==
    (pc = "file" /\ fi >= 1 /\ flow.email_enabled /\ ~success) => sent # <<>>

\* what the history says the notification rows are: per unit, one row per artifact
\* whose outcome was recorded, then one row if the unit's processing raised
RECURSIVE ArtifactRows(_)
ArtifactRows(arts) ==
    IF arts = <<>> THEN <<>>
    ELSE << [ key    |-> IF Head(arts).order_id = NoOrderId THEN Dash
                         ELSE Head(arts).order_id,
              status |-> IF Head(arts).got2xx THEN "Success" ELSE "Failed" ] >>
         \o ArtifactRows(Tail(arts))

RECURSIVE ExpectedRows(_)
ExpectedRows(hist) ==
    IF hist = <<>> THEN <<>>
    ELSE ArtifactRows(Head(hist).arts)
         \o (IF Head(hist).raised THEN << [key |-> Dash, status |-> "Failed"] >> ELSE <<>>)
         \o ExpectedRows(Tail(hist))

TableSent == sent # <<>> /\ sent[1].kind = "table"

\* C8 as stated: the notification of a split file has exactly one row per split unit.
C8_OneRowPerUnit ==
    (TableSent /\ Posting) => Len(sent[1].table.trs) = Len(splits)

\* C8 amended: with splitting and email enabled, the notification of a file whose
\* split produced units holds, in processing order, one row for every artifact whose
\* outcome was recorded (its order id or '-', Success iff it was answered 2xx, the
\* response cut to 2000 characters) and one Failed row for every unit whose
\* processing raised; a unit with a single artifact and no exception, or with an
\* exception before its first artifact was recorded, has exactly one row, and every
\* unit has at least one.
C8_RowsPerArtifact ==
    /\ (pc = "file" /\ fi >= 1 /\ flow.email_enabled /\ flow.split_enabled
            /\ ~split_raised /\ splits # <<>>) => TableSent
    /\ TableSent =>
          LET trs == sent[1].table.trs
              exp == ExpectedRows(unit_hist)
          IN  /\ Len(sent) = 1
              /\ sent[1].file = matched_files[fi]
              /\ Len(trs) = Len(exp)
              /\ Len(trs) >= Len(splits)
              /\ \A i \in 1..Len(trs) :
                    /\ trs[i].order_id = exp[i].key
                    /\ trs[i].status = exp[i].status
                    /\ TextLen(trs[i].response) <= ExcerptLen
                    /\ (trs[i].status = "Success" => TextLen(trs[i].response) = 7)
              /\ (\A i \in 1..Len(unit_hist) :
                     Len(unit_hist[i].arts) + (IF unit_hist[i].raised THEN 1 ELSE 0) = 1)
                 => Len(trs) = Len(splits)

\* C8 witness: two units, none answered 2xx, the second one after a long 500 body:
\* the table lists both, the second with the excerpt of 2000 characters
C8_Witness ==
    /\ TableSent
    /\ Len(splits) = 2
    /\ Len(sent[1].table.trs) = 2
    /\ ~unit_hist[1].raised
    /\ ~unit_hist[2].raised
    /\ sent[1].table.trs[1].status = "Failed"
    /\ sent[1].table.trs[2].status = "Failed"
    /\ TextLen(sent[1].table.trs[2].response) = ExcerptLen

\* C9: the archive/dead-letter move is best-effort: a failed remove is followed by
\* a rename, and no failure of the move (download, upload, remove, rename) leaves
\* the file's processing, changes its recorded outcome or the rows and text its
\* notification is built from, or keeps the run from going on.
C9_MoveBestEffort ==
    [][ pc = "move" =>
          /\ pc' = "email"
          /\ success' = success
          /\ email_rows' = email_rows
          /\ full_response_text' = full_response_text
          /\ fi' = fi
          /\ matched_files' = matched_files
          /\ (OpTried(move_ops', "rename") <=> OpFailed(move_ops', "remove"))
          /\ (OpOk(move_ops', "upload") => OpTried(move_ops', "remove")) ]_vars

\* C9 witness: upload worked, remove and rename failed; the file is still recorded
\* as a success and the run is at the notification step
C9_Witness ==
    /\ pc = "email"
    /\ success
    /\ OpFailed(move_ops, "remove")
    /\ OpFailed(move_ops, "rename")
    /\ remote = {"Incoming", "Archives"}

\* the prefix test of the flow, on trimmed lower-case text
HasPrefix(name, pattern) ==
    LET n == LowerStr(Strip(name))
        p == LowerStr(Strip(pattern))
    IN  /\ Len(p) <= Len(n)
        /\ \A i \in 1..Len(p) : n[i] = p[i]

Wanted(name) == flow.start_pattern = NoPattern \/ HasPrefix(name, flow.start_pattern)

InSeq(x, q) == \E i \in 1..Len(q) : q[i] = x

LoggedBody ==
    IF TextTruthy(response_text) THEN response_text
    ELSE IF PostFailed THEN last_exception
    ELSE EmptyText

IsSubsequence(q, l) ==
    \E f \in [1..Len(q) -> 1..Len(l)] :
        /\ \A i \in 1..Len(q) : l[f[i]] = q[i]
        /\ \A i, j \in 1..Len(q) : i < j => f[i] < f[j]

\* the run is inside a unit: converting it, or posting and recording its artifacts
InUnit == pc \in {"artifact", "post", "record"}

\* C30: inbound processing is strictly sequential and order-preserving: files are
\* processed in the order they were fetched and a file's units in split order; at
\* most one unit is in its convert/POST phase at any time, no POST attempt of a unit
\* starts before every attempt of the previous unit has finished, and no unit of the
\* next file starts before the current file has gone through its move and its
\* notification step.
C30_Sequential ==
    /\ [](/\ IsSubsequence(matched_files, files)
          /\ \A i \in 1..Len(unit_hist) : unit_hist[i].unit = splits[i]
          /\ InUnit => (unit_cur.unit = splits[pi] /\ Len(unit_hist) = pi - 1)
          /\ ~InUnit => unit_cur = NoUnit
          /\ (pc = "file" /\ fi >= 1 /\ flow.use_sftp) => move_ops # <<>>)
    /\ [][/\ fi' # fi => (fi' = fi + 1 /\ pc = "file" /\ pi' = 0 /\ unit_hist' = <<>>)
          /\ (pc' = "file" /\ pc # "file") => pc \in {"start", "email"}
          /\ (pc' = "email" /\ pc # "email") => pc = "move"
          /\ (pc' = "move" /\ pc # "move") => ~InUnit
          /\ (attempt' = attempt + 1) =>
                (pc = "post" /\ fi' = fi /\ pi' = pi /\ unit_cur' = unit_cur
                 /\ unit_hist' = unit_hist)
          /\ (fi' = fi /\ pi' # pi) => (pi < pi' /\ Len(unit_hist') >= pi' - 1)]_vars

\* C30 witness: the second unit of the second file is at its second POST attempt
\* after the first unit of that file was finished and the first file was moved
C30_Witness ==
    /\ fi = 2
    /\ pi = 2
    /\ pc = "post"
    /\ attempt = 1
    /\ Len(unit_hist) = 1
    /\ flow.use_sftp
    /\ matched_files = files

\* every artifact recorded for unit h was posted and answered with a 2xx status
EveryArtifactAnswered2xx(h) == \A j \in 1..Len(h.arts) : h.arts[j].got2xx

\* C33: a unit counts as successful for the file outcome only if a POST attempt was
\* made for each of its artifacts and one of them was answered 2xx, for every value
\* of retry.max_attempts (0 included) and with or without an api section: no file
\* with a converted artifact is recorded success on the strength of zero attempts.
C33_NoSuccessWithoutPost ==
    (FileRecorded /\ pc # "done" /\ success) =>
        \A i \in 1..Len(unit_hist) : EveryArtifactAnswered2xx(unit_hist[i])

\* every notification row of the current file has status 'Success'
AllRowsSuccess == \A i \in 1..Len(email_rows) : email_rows[i].status = "Success"

\* C35: with splitting enabled the status of the notification rows agrees with the
\* outcome used for routing: a file whose split returned is recorded success iff
\* every row emitted for it has status 'Success', so a 'Failed' row stands only for
\* a unit that makes the file outcome a failure.
C35_RowsAgreeWithOutcome ==
    (FileRecorded /\ pc # "done" /\ flow.split_enabled /\ ~split_raised) =>
        (success <=> AllRowsSuccess)

\* the last POST attempt of the artifact being recorded raised or timed out: the
\* loop was left with the exception of requests.post as last_exception and not by
\* the break that follows an accepted response
LastAttemptRaised ==
    /\ pc = "record"
    /\ posts # <<>>
    /\ last_exception = PostError
    /\ (status_code = NoStatus \/ ~RespOk(status_code))

\* C36: the status code and body written to the response log and shown in the
\* notification are those of the last attempt made: when the last attempt raised,
\* the status and body of an earlier attempt that was answered are not reported.
C36_LastAttemptReported ==
    [][ LastAttemptRaised =>
          /\ response_log' \in {WriteFailed, NoRecord, LogRecord(NoStatus, PostError)}
          /\ (flow.split_enabled /\ pc' = "artifact") =>
                Last(email_rows').response = Slice(PostError, ExcerptLen)
          /\ (~flow.split_enabled /\ pc' = "artifact") =>
                /\ Last(full_response_text').status = NoStatus
                /\ Last(full_response_text').response = PostError ]_vars

\* C37: for each file the steps occur in a fixed order: the split first, then for
\* each unit its conversion before its POST attempts, the archive/dead-letter move
\* only after the last unit has finished, the notification after the move; and no
\* POST is sent for a unit whose conversion raised or produced no artifact.
C37_StepOrder ==
    /\ [](/\ pc = "split" => (pi = 0 /\ unit_hist = <<>> /\ unit_cur = NoUnit)
          /\ pc = "post" => (/\ unit_cur.unit = splits[pi]
                             /\ ~unit_cur.raised
                             /\ ji >= 1
                             /\ json_paths[ji].exists)
          /\ (pc = "move" /\ ~split_raised) =>
                (pi = Len(splits) /\ Len(unit_hist) = Len(splits) /\ unit_cur = NoUnit)
          /\ (pc = "move" /\ split_raised) => (unit_hist = <<>> /\ posts = <<>>))
    /\ [][/\ (pc' = "split" /\ pc # "split") => (pc = "file" /\ flow.split_enabled)
          /\ (pc' = "piece" /\ pc = "file") => ~flow.split_enabled
          /\ (pc' = "post" /\ pc # "post") => pc = "artifact"
          /\ (pc' = "artifact" /\ pc = "piece") =>
                (json_paths' # <<>> /\ unit_cur'.unit = splits[pi'])
          /\ (pc = "piece" /\ pc' = "piece") =>
                (pi' = pi + 1 /\ Last(unit_hist').raised /\ posts' = <<>> /\ attempt' = 0)
          /\ (pc' = "move" /\ pc # "move") => pc \in {"split", "piece"}
          /\ (pc' = "email" /\ pc # "email") => pc = "move"
          /\ (pc = "email" /\ pc' # "email") => pc' = "file"
          /\ (attempt' = attempt + 1) => pc = "post"]_vars

\* C37 witness: the first unit's conversion gave nothing and nothing was posted for
\* it, the second unit was converted and posted, then the file was moved; the run is
\* at the notification
C37_Witness ==
    /\ pc = "email"
    /\ flow.split_enabled
    /\ flow.use_sftp
    /\ Posting
    /\ Len(unit_hist) = 2
    /\ unit_hist[1].raised
    /\ unit_hist[1].arts = <<>>
    /\ unit_hist[2].arts # <<>>
    /\ move_ops # <<>>

\* process() is one sequential call: whatever step it is at is taken
FairSpec == Spec /\ WF_vars(Next)

\* C39: for any finite list of fetched files and any finite max_attempts an inbound
\* run terminates, having made at most max_attempts POST attempts for each converted
\* artifact: no failure of a conversion, a POST, a move, a response-log write or an
\* email causes one more attempt or a loop.
C39_Terminates ==
    /\ <>(pc = "done")
    /\ [](/\ Len(posts) = attempt
          /\ attempt <= flow.max_attempts
          /\ sleeps <= attempt
          /\ (~flow.api => attempt = 0)
          /\ pc = "done" => fi = Len(matched_files))
    /\ [][/\ fi' >= fi
          /\ (fi' = fi /\ pc # "start") => pi' >= pi
          /\ (fi' = fi /\ pi' = pi /\ pc \in {"artifact", "post", "record"}
                /\ pc' \in {"artifact", "post", "record"}) => ji' >= ji
          /\ (pc = "post" /\ pc' = "post") => attempt' = attempt + 1]_vars

\* C39 witness: the run is over after two files; the last unit of the last file had
\* an artifact whose attempts, more than one allowed, were used up without a 2xx
C39_Witness ==
    /\ pc = "done"
    /\ fi = 2
    /\ flow.api
    /\ flow.max_attempts >= 2
    /\ unit_hist # <<>>
    /\ Last(unit_hist).arts # <<>>
    /\ ~Last(Last(unit_hist).arts).got2xx
    /\ ~success

(* ===================== properties of split_by_field ===================== *)
\* position of the first end-of-transmission marker of the input, 0 if none
FirstEot(src) ==
    IF \E i \in 1..Len(src) : IsEot(src[i])
    THEN CHOOSE i \in 1..Len(src) : IsEot(src[i]) /\ \A j \in 1..(i - 1) : ~IsEot(src[j])
    ELSE 0

\* the lines in front of the first marker
BeforeMarker(src) ==
    IF FirstEot(src) = 0 THEN src ELSE SubSeq(src, 1, FirstEot(src) - 1)

\* without the leading '#' comment line
WithoutHeader(src) == IF src # <<>> /\ IsComment(src[1]) THEN Tail(src) ELSE src

\* the retained lines of an input: what is in front of the marker, less a leading
\* comment line and the blank lines
RetainedLines(src) ==
    SelectSeq(WithoutHeader(BeforeMarker(src)), LAMBDA l : ~IsBlank(l))

\* the maximal runs of consecutive lines with one key, in order
RECURSIVE Groups(_, _)
Groups(lines, field) ==
    IF lines = <<>> THEN <<>>
    ELSE LET rest == Groups(Tail(lines), field)
         IN  IF rest # <<>>
                  /\ OrderNumber(Head(rest[1]), field) = OrderNumber(Head(lines), field)
             THEN <<(<<Head(lines)>> \o rest[1])>> \o Tail(rest)
             ELSE << <<Head(lines)>> >> \o rest

SplitGroups == Groups(RetainedLines(sp_src), sp_field)

HasEot == FirstEot(sp_src) # 0

\* C12: on an input made of N consecutive constant-key groups (with a leading comment
\* line and blank lines, no marker) split_by_field returns N paths that name N files,
\* the i-th file holding exactly the retained lines of the i-th group in their order.
C12_NGroupsNFiles ==
    (sp_pc = "done" /\ ~HasEot) =>
        /\ Len(created_files) = Len(SplitGroups)
        /\ Cardinality({ created_files[i] : i \in 1..Len(created_files) })
              = Len(SplitGroups)
        /\ \A i \in 1..Len(created_files) :
              /\ created_files[i] \in DOMAIN sp_disk
              /\ sp_disk[created_files[i]] = SplitGroups[i]

\* C13: at the end-of-transmission marker, wherever it stands, reading stops: no
\* group is made of lines behind the marker, every file written holds a group of the
\* lines in front of it, and the group open at the marker (at the end of the input
\* when there is no marker) is written.
C13_StopsAtMarker ==
    sp_pc = "done" =>
        /\ Len(created_files) = Len(SplitGroups)
        /\ \A name \in DOMAIN sp_disk :
              \E i \in 1..Len(SplitGroups) : sp_disk[name] = SplitGroups[i]
        /\ SplitGroups # <<>> =>
              /\ created_files # <<>>
              /\ sp_disk[Last(created_files)] = Last(SplitGroups)

\* lines i < j of the input are retained, have the same key, and blank lines, at
\* least one and nothing else, stand between them
SameKeyAcrossBlanks(i, j) ==
    /\ i + 1 < j
    /\ ~IsBlank(sp_src[i])
    /\ ~IsBlank(sp_src[j])
    /\ ~(i = 1 /\ IsComment(sp_src[i]))
    /\ OrderNumber(sp_src[i], sp_field) = OrderNumber(sp_src[j], sp_field)
    /\ \A k \in (i + 1)..(j - 1) : IsBlank(sp_src[k])

\* C14: a blank line is dropped without closing the group: two retained lines with
\* the same key that only blank lines separate end up next to each other in the same
\* output file, and a group is closed exactly when the key differs from that of the
\* previous retained line.
C14_BlankKeepsGroup ==
    (sp_pc = "done" /\ ~HasEot) =>
        /\ \A i, j \in 1..Len(sp_src) :
              SameKeyAcrossBlanks(i, j) =>
                 \E name \in DOMAIN sp_disk :
                    \E k \in 1..(Len(sp_disk[name]) - 1) :
                       /\ sp_disk[name][k] = sp_src[i]
                       /\ sp_disk[name][k + 1] = sp_src[j]
        /\ Len(created_files) = Len(SplitGroups)

\* the paths of the returned list are pairwise distinct
DistinctPaths ==
    \A i, j \in 1..Len(created_files) : i # j => created_files[i] # created_files[j]

\* C34: with splitting enabled every retained line of the input file is handed to
\* the converter in exactly one unit: the returned paths are pairwise distinct, and
\* the units the converter reads are the groups of the file, each once and whole,
\* also when one key value occurs in two groups that are not adjacent.
C34_EveryLineInOneUnit ==
    /\ sp_pc \in {"done", "pieces", "handed"} => DistinctPaths
    /\ sp_pc = "handed" => handed = SplitGroups

(* ========================== fixed-width slice =========================== *)
\* longest line drawn
MaxLen == 4

\* largest field position drawn
MaxPos == 6

SliceChars == {" ", "a", "b"}

SliceLines == UNION { [1..n -> SliceChars] : n \in 0..MaxLen }

\* python: s[lo:] for lo >= 0
PyFrom(s, lo) == SubSeq(s, lo + 1, Len(s))

\* python: s[lo:hi] for 0 <= lo, 0 <= hi: both ends are clamped to the length
PyRange(s, lo, hi) == SubSeq(s, lo + 1, Min(hi, Len(s)))

\* variant: a line shorter than end yields nothing
SliceField_NoTail(line, start, end) ==
    Strip(IF Len(line) >= end THEN PyRange(line, start - 1, end) ELSE <<>>)

\* GNCOrders_Converter._slice
SliceField(line, start, end) ==
    Strip(IF Len(line) >= end THEN PyRange(line, start - 1, end)
          ELSE PyFrom(line, start - 1))

\* ASNConverter._parse_fixed
ParseFixed(text, start, end) ==
    IF Len(text) >= end THEN Strip(PyRange(text, start - 1, end))
    ELSE Strip(PyFrom(text, start - 1))

SliceInit ==
    /\ OnlySlice
    /\ sl_pc = "call"
    /\ sl_line \in SliceLines
    /\ sl_start \in 1..MaxPos
    /\ sl_end \in sl_start..MaxPos
    /\ sl_out = <<>>
    /\ sl_out_fc = <<>>

ApplySlice ==
    /\ sl_pc = "call"
    /\ sl_out' = SliceField(sl_line, sl_start, sl_end)
    /\ sl_out_fc' = ParseFixed(sl_line, sl_start, sl_end)
    /\ sl_pc' = "done"
    /\ UNCHANGED << outsideSlice, sl_line, sl_start, sl_end >>

SliceNext == ApplySlice

SliceSpec == SliceInit /\ [][SliceNext]_sliceVars

\* the positions start..min(end, length) of the line that hold no blank
Inked(line, start, end) ==
    { i \in start..Min(end, Len(line)) : line[i] # " " }

SetMin(S) == CHOOSE x \in S : \A y \in S : x <= y

SetMax(S) == CHOOSE x \in S : \A y \in S : y <= x

\* the characters at positions start..min(end, length), trimmed
TrimmedField(line, start, end) ==
    LET ink == Inked(line, start, end)
    IN  IF ink = {} THEN <<>>
        ELSE [k \in 1..(SetMax(ink) - SetMin(ink) + 1) |-> line[SetMin(ink) + k - 1]]

\* C15: for every line and every range 1 <= start <= end the fixed-width slice returns
\* the trimmed characters at positions start..min(end, length of the line), the
\* empty string when start is beyond the end of the line, in both converters.
C15_SliceClamped ==
    sl_pc = "done" =>
        /\ sl_out = TrimmedField(sl_line, sl_start, sl_end)
        /\ sl_out_fc = TrimmedField(sl_line, sl_start, sl_end)
        /\ Len(sl_out) <= Min(sl_end, Len(sl_line))
        /\ sl_start > Len(sl_line) => sl_out = <<>>

\* C15 witness: the line is shorter than end and the field starts inside it: the
\* slice is the trimmed tail of the line
C15_Witness ==
    /\ sl_pc = "done"
    /\ sl_line = <<"a", " ", "b", " ">>
    /\ sl_start = 2
    /\ sl_end = 6
    /\ sl_out = <<"b">>
    /\ sl_out_fc = <<"b">>

(* ========================= packaging selection ========================== *)
\* candidates in one packagings list
MaxCands == 3

\* float("inf"), the key of a candidate without a usable quantity (FC)
Infinity == 1000000

\* base_packaging_quantity values: missing (None), non-numeric text, and integers
Quantities ==
    { [kind |-> "none", val |-> 0], [kind |-> "text", val |-> 0] }
    \cup { [kind |-> "int", val |-> v] : v \in {-1, 0, 2, 5, 10} }

\* the i-th candidate of the list carries the packaging code <<"P", i>>
PackagingLists == UNION { [1..n -> Quantities] : n \in 0..MaxCands }

PackagingOf(i) == <<"P", i>>

\* the literal "EA"
DefaultEA == <<"EA", 0>>

\* the literal "3" the FC converter starts from
DefaultFC == <<"3", 0>>

\* the loop of select_packaging (GNC): the index selected among the first n
\* candidates, 0 while none qualified; isinstance(qty, int) and qty > 0, strict <
RECURSIVE GncSelected(_, _)
GncSelected(cands, n) ==
    IF n = 0 THEN 0
    ELSE LET prev == GncSelected(cands, n - 1)
             q    == cands[n]
         IN  IF q.kind = "int" /\ q.val > 0
                  /\ (prev = 0 \/ q.val < cands[prev].val)
             THEN n
             ELSE prev

\* select_packaging (GNC)
SelectPackaging(cands) ==
    IF cands = <<>> THEN DefaultEA
    ELSE IF GncSelected(cands, Len(cands)) = 0 THEN DefaultEA
    ELSE PackagingOf(GncSelected(cands, Len(cands)))

\* base_qty (FC): None and values int() rejects count as infinity
BaseQty(q) == IF q.kind = "int" THEN q.val ELSE Infinity

\* python min(packagings, key=base_qty): the first candidate with the least key
MinByBaseQty(cands) ==
    CHOOSE i \in 1..Len(cands) :
        /\ \A j \in 1..Len(cands) : BaseQty(cands[i]) <= BaseQty(cands[j])
        /\ \A j \in 1..(i - 1) : BaseQty(cands[j]) > BaseQty(cands[i])

\* the selection inside resolve_packaging_via_api (FC)
SelectPackagingFC(cands) ==
    IF cands = <<>> THEN DefaultFC
    ELSE IF Len(cands) = 1 THEN PackagingOf(1)
    ELSE PackagingOf(MinByBaseQty(cands))

PackInit ==
    /\ OnlyPack
    /\ pk_pc = "call"
    /\ pk_cands \in PackagingLists
    /\ pk_gnc = <<>>
    /\ pk_fc = <<>>

ApplySelect ==
    /\ pk_pc = "call"
    /\ pk_gnc' = SelectPackaging(pk_cands)
    /\ pk_fc' = SelectPackagingFC(pk_cands)
    /\ pk_pc' = "done"
    /\ UNCHANGED << outsidePack, pk_cands >>

PackNext == ApplySelect

PackSpec == PackInit /\ [][PackNext]_packVars

\* the candidates with a usable quantity: a positive integer
Usable(cands) == { i \in 1..Len(cands) : cands[i].kind = "int" /\ cands[i].val > 0 }

\* the first candidate that has the smallest positive quantity
BestCandidate(cands) ==
    CHOOSE i \in Usable(cands) :
        /\ \A j \in Usable(cands) : cands[i].val <= cands[j].val
        /\ \A j \in Usable(cands) : cands[j].val = cands[i].val => i <= j

\* what the claim lets a converter select from the list
RightChoice(cands, chosen) ==
    IF Usable(cands) # {}
    THEN chosen = PackagingOf(BestCandidate(cands))
    ELSE \/ chosen \in {DefaultEA, DefaultFC}
         \/ cands # <<>> /\ chosen = PackagingOf(1)

\* C16: of several candidates the converter picks the one with the smallest positive
\* numeric base_packaging_quantity, the first of them on a tie; a candidate whose
\* quantity is missing, non-numeric, zero or negative is never preferred to one with
\* a positive quantity; without any usable quantity the result is the first
\* candidate or the literal default - in the GNC and in the FC converter alike.
C16_SmallestPositive ==
    pk_pc = "done" =>
        /\ RightChoice(pk_cands, pk_gnc)
        /\ RightChoice(pk_cands, pk_fc)

(* ================== convert(): lookups and their cache ================== *)
\* order lines in one file
MaxOrderLines == 3

\* convert() invocations in one run
MaxCalls == 2

\* PRTNUM fields as parse_line returns them: trimmed, possibly empty
MaterialCodes == { <<>>, <<"A">>, <<"B">> }

OrderFiles == UNION { [1..n -> MaterialCodes] : n \in 1..MaxOrderLines }

\* how one material lookup can end: requests.post raises (network error, timeout),
\* the body is not JSON, the body has no materials, the first material has no
\* packagings, or a packaging is selected
LookupOutcomes == { "raised", "unparsable", "no_materials", "no_packagings", "selected" }

\* the packaging selected from the answer for a key
SelectedFor(key) == <<"P", key>>

\* what resolve_packaging_via_api returns after a lookup that ended this way:
\* packaging starts as "EA" (GNC) or "3" (FC) and changes only on a selection
LookupResult(conv, key, outcome) ==
    IF outcome = "selected" THEN SelectedFor(key)
    ELSE IF conv = "GNC" THEN DefaultEA
    ELSE DefaultFC

\* what it returns for an empty material code, without any lookup
EmptyCodeResult(conv) == IF conv = "GNC" THEN DefaultEA ELSE <<"1", 0>>

\* variant: only a selection is memoized
CacheStore_OnlySelected(cache, key, packaging, outcome) ==
    IF outcome = "selected"
    THEN [k \in DOMAIN cache \cup {key} |-> IF k = key THEN packaging ELSE cache[k]]
    ELSE cache

\* material_packaging_cache[key] = packaging or "EA", after the try/except
CacheStore(cache, key, packaging, outcome) ==
    [k \in DOMAIN cache \cup {key} |-> IF k = key THEN packaging ELSE cache[k]]

ConvInit ==
    /\ OnlyConv
    /\ cv_pc = "line"
    /\ cv_conv \in {"GNC", "FC"}
    /\ cv_call = 1
    /\ cv_lines \in OrderFiles
    /\ cv_i = 0
    /\ material_packaging_cache = EmptyCache
    /\ order_lines = <<>>
    /\ cv_lookups = <<>>
    /\ cv_prev = {}

\* one pass of the loop over the order lines: resolve_packaging_via_api(material)
\* and the append of the order line
ConvertLine ==
    /\ cv_pc = "line"
    /\ cv_i < Len(cv_lines)
    /\ cv_i' = cv_i + 1
    /\ LET key == Strip(cv_lines[cv_i + 1])
       IN  IF key = <<>>
           THEN /\ order_lines' = Append(order_lines, EmptyCodeResult(cv_conv))
                /\ UNCHANGED << material_packaging_cache, cv_lookups >>
           ELSE IF key \in DOMAIN material_packaging_cache
           THEN /\ order_lines' = Append(order_lines, material_packaging_cache[key])
                /\ UNCHANGED << material_packaging_cache, cv_lookups >>
           ELSE \E outcome \in LookupOutcomes :
                   LET packaging == LookupResult(cv_conv, key, outcome)
                   IN  /\ cv_lookups' = Append(cv_lookups, [key |-> key, outcome |-> outcome])
                       /\ material_packaging_cache' =
                             CacheStore(material_packaging_cache, key, packaging, outcome)
                       /\ order_lines' = Append(order_lines, packaging)
    /\ UNCHANGED << outsideConv, cv_pc, cv_conv, cv_call, cv_lines, cv_prev >>

\* convert() returns; the next file of the run is converted by a new invocation,
\* whose cache is a new empty dict
NextConvert ==
    /\ cv_pc = "line"
    /\ cv_i = Len(cv_lines)
    /\ cv_call < MaxCalls
    /\ cv_call' = cv_call + 1
    /\ cv_lines' \in OrderFiles
    /\ cv_i' = 0
    /\ material_packaging_cache' = EmptyCache
    /\ order_lines' = <<>>
    /\ cv_lookups' = <<>>
    /\ cv_prev' = cv_prev \cup { cv_lookups[i].key : i \in 1..Len(cv_lookups) }
    /\ UNCHANGED << outsideConv, cv_pc, cv_conv >>

\* the last convert() of the run returns
LastConvert ==
    /\ cv_pc = "line"
    /\ cv_i = Len(cv_lines)
    /\ cv_call = MaxCalls
    /\ cv_pc' = "done"
    /\ UNCHANGED << outsideConv, cv_conv, cv_call, cv_lines, cv_i,
                    material_packaging_cache, order_lines, cv_lookups, cv_prev >>

ConvNext ==
    \/ ConvertLine
    \/ NextConvert
    \/ LastConvert

ConvSpec == ConvInit /\ [][ConvNext]_convVars

\* the lookups made so far in this invocation for a key
LookupsOf(key) == { i \in 1..Len(cv_lookups) : cv_lookups[i].key = key }

\* the lookup of this invocation for a key ended without a packaging
LookupFailed(key) ==
    \E i \in LookupsOf(key) : cv_lookups[i].outcome # "selected"

\* C17: a packaging lookup that raises, times out, returns an unparsable body or
\* returns no materials or packagings never makes convert() fail: the order line is
\* emitted with the default unit code 'EA', and the remaining lines are converted.
C17_LookupFailureGivesEA ==
    /\ Len(order_lines) = cv_i
    /\ \A i \in 1..Len(order_lines) :
          (cv_lines[i] # <<>> /\ LookupFailed(Strip(cv_lines[i])))
              => order_lines[i] = DefaultEA
    /\ cv_pc = "done" => cv_i = Len(cv_lines)

\* the distinct non-empty trimmed material codes of the lines handled so far
KeysHandled == { Strip(cv_lines[i]) : i \in 1..cv_i } \ { <<>> }

\* C18: within one convert() invocation exactly one lookup is issued per distinct
\* trimmed material code handled, however many lines carry the code and however the
\* lookup ended; later lines with the code get the memoized result; and a new
\* invocation starts from an empty cache.
C18_OneLookupPerCode ==
    /\ \A key \in KeysHandled : Cardinality(LookupsOf(key)) = 1
    /\ \A i \in 1..Len(cv_lookups) : cv_lookups[i].key \in KeysHandled
    /\ DOMAIN material_packaging_cache = KeysHandled
    /\ \A i \in 1..Len(order_lines) :
          cv_lines[i] # <<>> => order_lines[i] = material_packaging_cache[Strip(cv_lines[i])]

\* C18 witness: in the second invocation three lines carry a code that the first
\* invocation had looked up; it was looked up once more, the lookup raised, and the
\* three lines carry the same packaging
C18_Witness ==
    /\ cv_call = 2
    /\ cv_i = 3
    /\ cv_lines = << <<"A">>, <<"A">>, <<"A">> >>
    /\ <<"A">> \in cv_prev
    /\ cv_lookups = << [key |-> <<"A">>, outcome |-> "raised"] >>
    /\ order_lines[1] = order_lines[3]

(* ====================== OAuthClient: get_token ======================== *)
\* last reading of the clock
MaxTime == 4

\* tokens issued in one run of the model
MaxTokens == 3

\* seconds taken off the declared lifetime
Margin == 30

\* token_data.get('expires_in', 3600)
DefaultLifetime == 3600

NoExpiresIn == 0

\* expires_in of the token response: absent, or a few seconds around the margin
ExpiresIn == { NoExpiresIn, Margin, Margin + 1, Margin + 2 }

Lifetime(expires_in) == IF expires_in = NoExpiresIn THEN DefaultLifetime ELSE expires_in

\* how the client-credentials request can end
ExchangeOutcomes == { "network_error", "non_2xx", "no_access_token", "token" }

\* _load_cache: the file is read once per client
\* what json.load gives for the file, {} when the file cannot be read or parsed
ReadCacheFile(file) ==
    IF file.state \in {"unreadable", "invalid_json"} THEN EmptyDict ELSE file

LoadCache(cache, file) == IF cache.state = "none" THEN ReadCacheFile(file) ELSE cache

\* the check of the cached token raises: a JSON value that is not an object has no
\* .get, and an object with a later expires_at but no access_token has no
\* cache['access_token']
CacheRaises(cache, now) ==
    \/ cache.state = "not_dict"
    \/ cache.state = "no_token" /\ cache.expires_at > now

\* variant: a token is still served at the instant it expires
CacheValid_AtExpiry(cache, now) == cache.state = "token" /\ cache.expires_at >= now

\* cache and cache.get('expires_at', 0) > time.time()
CacheValid(cache, now) == cache.state = "token" /\ cache.expires_at > now

\* the clock moves on
Tick ==
    /\ tk_pc = "idle"
    /\ tk_now < MaxTime
    /\ tk_now' = tk_now + 1
    /\ UNCHANGED << outsideToken, tk_pc, tk_cache, tk_file, tk_issued, tk_last >>

\* OAuthClient(cfg.get_auth()): the next run builds a new client
NewClient ==
    /\ tk_pc = "idle"
    /\ tk_cache # NotLoaded
    /\ tk_cache' = NotLoaded
    /\ UNCHANGED << outsideToken, tk_pc, tk_now, tk_file, tk_issued, tk_last >>

\* the step of process() that asks for headers and posts: get_auth_headers ->
\* get_token finds a valid cached token
PostWithCachedToken ==
    /\ tk_pc = "idle"
    /\ LET cache == LoadCache(tk_cache, tk_file)
       IN  /\ CacheValid(cache, tk_now)
           /\ tk_cache' = cache
           /\ tk_last' = [kind |-> "cached", token |-> cache.access_token, at |-> tk_now,
                           had |-> cache, exchanges |-> 0, stored |-> cache,
                           bearer |-> TRUE, sent |-> TRUE]
    /\ UNCHANGED << outsideToken, tk_pc, tk_now, tk_file, tk_issued >>

\* variant: a failed request empties the cache in memory
PostAfterExchange_DropsOnFailure ==
    /\ tk_pc = "idle"
    /\ Len(tk_issued) < MaxTokens
    /\ LET cache == LoadCache(tk_cache, tk_file)
       IN  /\ ~CacheValid(cache, tk_now)
           /\ ~CacheRaises(cache, tk_now)
           /\ \E outcome \in ExchangeOutcomes, took \in {0, 1} :
                 /\ tk_now + took <= MaxTime
                 /\ tk_now' = tk_now + took
                 /\ IF outcome = "token"
                    THEN \E expires_in \in ExpiresIn, wrote \in BOOLEAN :
                           LET token == Len(tk_issued) + 1
                               data  == TokenData(token, tk_now' + Lifetime(expires_in) - Margin)
                           IN  /\ tk_issued' = Append(tk_issued,
                                     [at |-> tk_now', lifetime |-> Lifetime(expires_in)])
                               /\ tk_cache' = data
                               /\ tk_file' = IF wrote THEN data ELSE tk_file
                               /\ tk_last' = [kind |-> "new", token |-> token, at |-> tk_now,
                                               had |-> cache, exchanges |-> 1, stored |-> data,
                                               bearer |-> TRUE, sent |-> TRUE]
                    ELSE /\ tk_cache' = EmptyDict
                         /\ tk_last' = [kind |-> "raised", token |-> 0, at |-> tk_now,
                                         had |-> cache, exchanges |-> 1, stored |-> cache,
                                         bearer |-> FALSE, sent |-> TRUE]
                         /\ UNCHANGED << tk_file, tk_issued >>
    /\ UNCHANGED << outsideToken, tk_pc >>

\* the same step when get_token has to request a token: the request takes some
\* time; a token is cached (the file write may fail, which is only logged); a
\* failure is raised by get_token, swallowed by get_auth_headers, which returns {},
\* and the step posts with the headers it has
PostAfterExchange ==
    /\ tk_pc = "idle"
    /\ Len(tk_issued) < MaxTokens
    /\ LET cache == LoadCache(tk_cache, tk_file)
       IN  /\ ~CacheValid(cache, tk_now)
           /\ ~CacheRaises(cache, tk_now)
           /\ \E outcome \in ExchangeOutcomes, took \in {0, 1} :
                 /\ tk_now + took <= MaxTime
                 /\ tk_now' = tk_now + took
                 /\ IF outcome = "token"
                    THEN \E expires_in \in ExpiresIn, wrote \in BOOLEAN :
                           LET token == Len(tk_issued) + 1
                               data  == TokenData(token, tk_now' + Lifetime(expires_in) - Margin)
                           IN  /\ tk_issued' = Append(tk_issued,
                                     [at |-> tk_now', lifetime |-> Lifetime(expires_in)])
                               /\ tk_cache' = data
                               /\ tk_file' = IF wrote THEN data ELSE tk_file
                               /\ tk_last' = [kind |-> "new", token |-> token, at |-> tk_now,
                                               had |-> cache, exchanges |-> 1, stored |-> data,
                                               bearer |-> TRUE, sent |-> TRUE]
                    ELSE /\ tk_cache' = cache
                         /\ tk_last' = [kind |-> "raised", token |-> 0, at |-> tk_now,
                                         had |-> cache, exchanges |-> 1, stored |-> cache,
                                         bearer |-> FALSE, sent |-> TRUE]
                         /\ UNCHANGED << tk_file, tk_issued >>
    /\ UNCHANGED << outsideToken, tk_pc >>

TokenInit ==
    /\ OnlyToken
    /\ tk_pc = "idle"
    /\ tk_now = 0
    /\ tk_cache = NotLoaded
    /\ tk_file = EmptyDict
    /\ tk_issued = <<>>
    /\ tk_last = NoCall

TokenNext ==
    \/ Tick
    \/ NewClient
    \/ PostWithCachedToken
    \/ PostAfterExchange

TokenSpec == TokenInit /\ [][TokenNext]_tokenVars

\* issue time + declared lifetime - safety margin
Expiry(token) == tk_issued[token].at + tk_issued[token].lifetime - Margin

\* the cache holds a token that has not reached its expiry
Unexpired(cache, now) ==
    /\ cache.state = "token"
    /\ now < Expiry(cache.access_token)

\* C19: get_token returns the cached token without any network exchange exactly
\* when the current time is before the cached expiry (issue time + declared
\* lifetime - 30 s); otherwise it makes one client-credentials exchange, stores the
\* new token and expiry in the cache before returning and returns the new token; so
\* no token is served from the cache at or after its expiry.
C19_CachedUntilExpiry ==
    tk_last.kind # "none" =>
        /\ tk_last.kind = "cached" <=> Unexpired(tk_last.had, tk_last.at)
        /\ tk_last.kind = "cached" =>
              /\ tk_last.exchanges = 0
              /\ tk_last.token = tk_last.had.access_token
              /\ tk_last.at < Expiry(tk_last.token)
        /\ tk_last.kind # "cached" => tk_last.exchanges = 1
        /\ tk_last.kind = "new" =>
              /\ tk_last.token = Len(tk_issued)
              /\ tk_last.stored = TokenData(tk_last.token, Expiry(tk_last.token))
              /\ tk_last.had.state = "token" => tk_last.token # tk_last.had.access_token

\* C19 witness: a token issued with a lifetime two seconds over the margin is
\* served from the cache one second after its issue, by a call made without an
\* exchange, and a later call at its expiry got a new token
C19_Witness ==
    /\ Len(tk_issued) = 2
    /\ tk_issued[1].lifetime = Margin + 2
    /\ tk_issued[2].at = Expiry(1)
    /\ tk_last.kind = "cached"
    /\ tk_last.token = 2
    /\ tk_last.at + 1 = Expiry(2)

\* C20: a failed token exchange is fatal to the caller: when the client-credentials
\* request fails, the step that asked for credentials does not send its API request
\* without a bearer token.
C20_NoPostWithoutToken ==
    tk_last.kind = "raised" => ~tk_last.sent

\* the step is a call of get_token whose token request failed
FailedExchange == tk_last'.kind = "raised" /\ tk_last' # tk_last

\* C38: when a token exchange fails, the cached token and expiry, in memory and in
\* the cache file, are what they were before the call (in memory: what the call
\* loaded from the file, if nothing was loaded yet), so the next get_token call
\* attempts a fresh exchange and returns no partial or expired entry.
C38_FailedExchangeKeepsCache ==
    [][ /\ FailedExchange =>
              /\ tk_file' = tk_file
              /\ tk_cache' = (IF tk_cache = NotLoaded THEN ReadCacheFile(tk_file)
                              ELSE tk_cache)
              /\ tk_issued' = tk_issued
              /\ ~CacheValid(tk_cache', tk_now')
        /\ (tk_last.kind = "raised" /\ tk_last' # tk_last) =>
              /\ tk_last'.exchanges = 1
              /\ tk_last'.kind # "cached"
              /\ ~CacheValid(tk_last'.had, tk_last'.at) ]_tokenVars

\* C38 witness: a client that holds an expired token made a call whose exchange
\* failed; its cache and the cache file still hold that token
C38_Witness ==
    /\ tk_last.kind = "raised"
    /\ tk_last.had.state = "token"
    /\ tk_cache = tk_last.had
    /\ tk_file = tk_last.had
    /\ Len(tk_issued) = 1

(* ================= OAuthClient: a cache file left by others ================= *)
\* a cache file the client did not write itself: missing, unreadable, not JSON, a
\* JSON list, an object without access_token, an object without expires_at
FoundFiles ==
    { EmptyDict,
      [state |-> "unreadable", access_token |-> 0, expires_at |-> 0],
      [state |-> "invalid_json", access_token |-> 0, expires_at |-> 0],
      [state |-> "not_dict", access_token |-> 0, expires_at |-> 0],
      [state |-> "no_token", access_token |-> 0, expires_at |-> MaxTime - 1],
      [state |-> "no_expiry", access_token |-> 0, expires_at |-> 0] }

\* the step of process() when the check of the cached token raises: get_token
\* re-raises, get_auth_headers returns {}, and no token is requested
PostAfterCacheError ==
    /\ tk_pc = "idle"
    /\ LET cache == LoadCache(tk_cache, tk_file)
       IN  /\ CacheRaises(cache, tk_now)
           /\ tk_cache' = cache
           /\ tk_last' = [kind |-> "cache_error", token |-> 0, at |-> tk_now,
                           had |-> cache, exchanges |-> 0, stored |-> cache,
                           bearer |-> FALSE, sent |-> TRUE]
    /\ UNCHANGED << outsideToken, tk_pc, tk_now, tk_file, tk_issued >>

CacheInit ==
    /\ OnlyToken
    /\ tk_pc = "idle"
    /\ tk_now = 0
    /\ tk_cache = NotLoaded
    /\ tk_file \in FoundFiles
    /\ tk_issued = <<>>
    /\ tk_last = NoCall

CacheNext ==
    \/ Tick
    \/ NewClient
    \/ PostWithCachedToken
    \/ PostAfterExchange
    \/ PostAfterCacheError

CacheSpec == CacheInit /\ [][CacheNext]_tokenVars

\* C21: a token cache that cannot be used (missing, unreadable, not valid JSON, or
\* without a usable token and expiry) is a cache miss: get_token goes on to a fresh
\* exchange and never raises because of the cache content.
C21_UnusableCacheIsMiss ==
    (tk_last.kind # "none" /\ tk_last.had.state # "token") =>
        /\ tk_last.kind # "cache_error"
        /\ tk_last.exchanges = 1

(* ================ DateRangeUpdater: update_payload_file ================ *)
Date(y, m, d) == [y |-> y, m |-> m, d |-> d]

IsLeap(y) == y % 4 = 0 /\ (y % 100 # 0 \/ y % 400 = 0)

DaysIn(y, m) ==
    IF m = 2 THEN (IF IsLeap(y) THEN 29 ELSE 28)
    ELSE IF m \in {4, 6, 9, 11} THEN 30
    ELSE 31

\* date - timedelta(days=1)
PrevDay(date) ==
    IF date.d > 1 THEN Date(date.y, date.m, date.d - 1)
    ELSE IF date.m > 1 THEN Date(date.y, date.m - 1, DaysIn(date.y, date.m - 1))
    ELSE Date(date.y - 1, 12, 31)

\* date + timedelta(days=1)
NextDay(date) ==
    IF date.d < DaysIn(date.y, date.m) THEN Date(date.y, date.m, date.d + 1)
    ELSE IF date.m < 12 THEN Date(date.y, date.m + 1, 1)
    ELSE Date(date.y + 1, 1, 1)

RECURSIVE MinusDays(_, _)
\* date - timedelta(days=n)
MinusDays(date, n) == IF n = 0 THEN date ELSE MinusDays(PrevDay(date), n - 1)

\* strftime("%Y-%m-%dT%H:%M:%S.%f")[:-3] + "Z": the last three of the six digits
\* of the microseconds are cut
Stamp(date, hour, minute, second, microsecond) ==
    << date.y, date.m, date.d, hour, minute, second, microsecond \div 1000 >>

\* variant: the start is taken six days back from the clock
GetYesterdayRange_SixBack(now1, now2) ==
    << Stamp(MinusDays(now1, 6), 0, 0, 0, 0),
       Stamp(MinusDays(now2, 1), 23, 59, 59, 999000) >>

\* get_yesterday_range, with the two readings of the clock
GetYesterdayRange(now1, now2) ==
    << Stamp(MinusDays(now1, 7), 0, 0, 0, 0),
       Stamp(MinusDays(now2, 1), 23, 59, 59, 999000) >>

\* the three pairs of bounds
FilterPairs ==
    { <<"created_from", "created_to">>,
      <<"fulfilled_from", "fulfilled_to">>,
      <<"completed_from", "completed_to">> }

PairKeys == UNION { {p[1], p[2]} : p \in FilterPairs }

\* a filter that is no date bound
OtherFilter == "owner"

\* a bound as the payload file holds it before the rewrite
OldStamp == Stamp(Date(2020, 1, 1), 0, 0, 0, 0)

FilterObjects ==
    UNION { [keys -> {OldStamp}] : keys \in SUBSET (PairKeys \cup {OtherFilter}) }

\* a key of the payload besides "filters"
OtherKey == "limit"

\* payload documents: with or without "filters"
Documents ==
    { [k \in {OtherKey} |-> OldStamp] }
    \cup { [k \in {OtherKey, "filters"} |-> IF k = "filters" THEN f ELSE OldStamp] :
              f \in FilterObjects }

RunDates ==
    { Date(2024, 6, 10), Date(2024, 3, 5), Date(2023, 3, 3),
      Date(2024, 1, 4), Date(2025, 1, 1) }

\* filters after the "if has_..." block of one pair
RewritePair(filters, pair, start, end) ==
    IF pair[1] \in DOMAIN filters /\ pair[2] \in DOMAIN filters
    THEN [k \in DOMAIN filters |->
             IF k = pair[1] THEN start ELSE IF k = pair[2] THEN end ELSE filters[k]]
    ELSE filters

\* data.get("filters", {}), the three blocks, data["filters"] = filters
UpdatedDocument(data, start, end) ==
    LET filters == IF "filters" \in DOMAIN data THEN data["filters"] ELSE NoDocument
        created == RewritePair(filters, <<"created_from", "created_to">>, start, end)
        fulfilled == RewritePair(created, <<"fulfilled_from", "fulfilled_to">>, start, end)
        completed == RewritePair(fulfilled, <<"completed_from", "completed_to">>, start, end)
    IN  [k \in DOMAIN data \cup {"filters"} |-> IF k = "filters" THEN completed ELSE data[k]]

DateInit ==
    /\ OnlyDate
    /\ dt_pc = "start"
    /\ dt_today \in RunDates
    /\ dt_rolled \in BOOLEAN
    /\ dt_data \in Documents
    /\ dt_out = NoDocument

UpdatePayloadFile ==
    /\ dt_pc = "start"
    /\ dt_pc' = "done"
    /\ LET now2 == IF dt_rolled THEN NextDay(dt_today) ELSE dt_today
           range == GetYesterdayRange(dt_today, now2)
       IN  dt_out' = UpdatedDocument(dt_data, range[1], range[2])
    /\ UNCHANGED << outsideDate, dt_today, dt_rolled, dt_data >>

DateNext == UpdatePayloadFile

DateSpec == DateInit /\ [][DateNext]_dateVars

\* the filters of a document, none when it has no "filters"
FiltersOf(doc) == IF "filters" \in DOMAIN doc THEN doc["filters"] ELSE NoDocument

BothBounds(doc, pair) ==
    pair[1] \in DOMAIN FiltersOf(doc) /\ pair[2] \in DOMAIN FiltersOf(doc)

\* a document agrees with another on a key: both lack it or both hold the same
SameAt(f, g, k) ==
    /\ k \in DOMAIN f <=> k \in DOMAIN g
    /\ k \in DOMAIN f => f[k] = g[k]

\* C22: the date rewrite changes a pair of bounds only if both bounds are present;
\* a pair with one bound or none is left as it was, each pair is decided on its own,
\* and no other key of the payload document is added, removed or changed.
C22_OnlyCompletePairs ==
    dt_pc = "done" =>
        /\ \A pair \in FilterPairs :
              ~BothBounds(dt_data, pair) =>
                  /\ SameAt(FiltersOf(dt_data), FiltersOf(dt_out), pair[1])
                  /\ SameAt(FiltersOf(dt_data), FiltersOf(dt_out), pair[2])
        /\ SameAt(FiltersOf(dt_data), FiltersOf(dt_out), OtherFilter)
        /\ DOMAIN FiltersOf(dt_out) = DOMAIN FiltersOf(dt_data)
        /\ DOMAIN dt_out = DOMAIN dt_data
        /\ SameAt(dt_data, dt_out, OtherKey)

\* days from 0000-03-01 of the proleptic calendar, by the closed formula
DayNumber(date) ==
    LET y == IF date.m <= 2 THEN date.y - 1 ELSE date.y
        mm == IF date.m <= 2 THEN date.m + 9 ELSE date.m - 3
    IN  365 * y + y \div 4 - y \div 100 + y \div 400 + (153 * mm + 2) \div 5 + date.d - 1

DateOf(stamp) == Date(stamp[1], stamp[2], stamp[3])

TimeOf(stamp) == << stamp[4], stamp[5], stamp[6], stamp[7] >>

Rewritten == { pair \in FilterPairs : BothBounds(dt_data, pair) }

\* a rewritten pair carries the window that ends the day before the run date at
\* 23:59:59.999 and starts six days before that day at 00:00:00.000
TrailingWindow(pair) ==
    LET start == dt_out["filters"][pair[1]]
        end   == dt_out["filters"][pair[2]]
    IN  /\ TimeOf(start) = << 0, 0, 0, 0 >>
        /\ TimeOf(end) = << 23, 59, 59, 999 >>
        /\ DayNumber(dt_today) - DayNumber(DateOf(end)) = 1
        /\ DayNumber(DateOf(end)) - DayNumber(DateOf(start)) = 6

UsageArgs == 3

Invocations ==
    [args : {0, 2, UsageArgs},
     direction : {"inbound", "outbound", "sideways"},
     converter : {"missing", "unresolved", "ok"},
     payload : {"missing_key", "no_file", "ok"},
     api : BOOLEAN,
     use_sftp : BOOLEAN,
     max_attempts : 1..MaxAttempts]

\* answers of the flow's API to the outbound request
OutboundStatuses == { 200, 201, 500 }

\* lines of a generated file
LineKinds == { "blank", "header", "trailer", "row" }

\* what converter.convert can leave: no path, a path to no file, or a file
Artifacts ==
    { NoArtifact, [path |-> TRUE, exists |-> FALSE, lines |-> <<>>] }
    \cup { [path |-> TRUE, exists |-> TRUE, lines |-> l] :
              l \in { <<>>, <<"blank">>, <<"blank", "blank">>, <<"header">>,
                      <<"header", "blank", "trailer">>, <<"blank", "trailer">>,
                      <<"row">>, <<"header", "row", "row", "trailer">> } }

\* _file_has_data: the file exists, is not empty and has a line that is not blank
FileHasData(file) ==
    /\ file.exists
    /\ file.lines # <<>>
    /\ \E i \in 1..Len(file.lines) : file.lines[i] # "blank"

\* variant: a failed upload is not followed by the local copy
Upload_NoFallback(use_sftp, sftp_ok, fallback_ok) ==
    IF ~use_sftp \/ sftp_ok THEN "dest_abs" ELSE "raised"

\* the value of uploaded after the "if flow.get('use_sftp')" block, or that the
\* block raised
Upload(use_sftp, sftp_ok, fallback_ok) ==
    IF ~use_sftp \/ sftp_ok THEN "dest_abs"
    ELSE IF fallback_ok THEN "fallback_copy"
    ELSE "raised"

\* variant: the summary carries no attachments
SummaryAttachments_None(generated) == <<>>

\* attachments=generated_files
SummaryAttachments(generated) == generated

OutInit ==
    /\ OnlyOut
    /\ ob_pc = "start"
    /\ ob_in \in Invocations
    /\ ob_end = "none"
    /\ ob_exit = <<>>
    /\ ob_api_calls = 0
    /\ ob_status = NoStatus
    /\ ob_artifact = NoArtifact
    /\ ob_delivery = NoDelivery
    /\ generated_files = <<>>
    /\ ob_emails = <<>>

\* main up to the call of the processor: usage check, Orchestrator.run's choice
Main ==
    /\ ob_pc = "start"
    /\ IF ob_in.args < UsageArgs
       THEN /\ ob_pc' = "done"
            /\ ob_end' = "usage"
            /\ ob_exit' = <<2>>
       ELSE IF ob_in.direction \notin {"inbound", "outbound"}
       THEN /\ ob_pc' = "done"
            /\ ob_end' = "error"
            /\ ob_exit' = <<1>>
       ELSE /\ ob_pc' = ob_in.direction
            /\ UNCHANGED << ob_end, ob_exit >>
    /\ UNCHANGED << outsideOut, ob_in, ob_api_calls, ob_status, ob_artifact, ob_delivery,
                    generated_files, ob_emails >>

\* InboundProcessor.process: _load_converter raises on a missing or unresolved
\* converter; the run itself ends with or without an exception
InboundFlow ==
    /\ ob_pc = "inbound"
    /\ ob_pc' = "done"
    /\ \E raised \in BOOLEAN :
          IF ob_in.converter # "ok" \/ raised
          THEN ob_end' = "error" /\ ob_exit' = <<1>>
          ELSE ob_end' = "completed" /\ ob_exit' = <<0>>
    /\ UNCHANGED << outsideOut, ob_in, ob_api_calls, ob_status, ob_artifact, ob_delivery,
                    generated_files, ob_emails >>

\* OutboundProcessor.process up to the API call: converter, payload_file
OutboundConfig ==
    /\ ob_pc = "outbound"
    /\ IF ob_in.converter = "missing"
       THEN /\ ob_pc' = "done"
            /\ ob_end' = "config"
            /\ ob_exit' = <<0>>
       ELSE IF ob_in.converter = "unresolved"
       THEN /\ ob_pc' = "done"
            /\ ob_end' = "error"
            /\ ob_exit' = <<1>>
       ELSE IF ob_in.payload # "ok"
       THEN /\ ob_pc' = "done"
            /\ ob_end' = "config"
            /\ ob_exit' = <<0>>
       ELSE /\ ob_pc' = "api"
            /\ UNCHANGED << ob_end, ob_exit >>
    /\ UNCHANGED << outsideOut, ob_in, ob_api_calls, ob_status, ob_artifact, ob_delivery,
                    generated_files, ob_emails >>

\* the API call of the outbound flow: one request; anything but a 200 returns
CallApi ==
    /\ ob_pc = "api"
    /\ IF ~ob_in.api
       THEN /\ ob_pc' = "convert"
            /\ UNCHANGED << ob_end, ob_exit, ob_api_calls, ob_status >>
       ELSE /\ ob_api_calls' = ob_api_calls + 1
            /\ \E raised \in BOOLEAN, status \in OutboundStatuses :
                  /\ ob_status' = IF raised THEN NoStatus ELSE status
                  /\ IF ~raised /\ status = 200
                     THEN /\ ob_pc' = "convert"
                          /\ UNCHANGED << ob_end, ob_exit >>
                     ELSE /\ ob_pc' = "done"
                          /\ ob_end' = "api"
                          /\ ob_exit' = <<0>>
    /\ UNCHANGED << outsideOut, ob_in, ob_artifact, ob_delivery, generated_files, ob_emails >>

\* the body of "for jfp in json_files": convert, skip or deliver
ConvertAndDeliver ==
    /\ ob_pc = "convert"
    /\ ob_pc' = "email"
    /\ \E file \in Artifacts, sftp_ok \in BOOLEAN, fallback_ok \in BOOLEAN :
          /\ ob_artifact' = file
          /\ IF ~file.path \/ ~FileHasData(file)
             THEN UNCHANGED << ob_delivery, generated_files >>
             ELSE LET uploaded == Upload(ob_in.use_sftp, sftp_ok, fallback_ok)
                  IN  /\ ob_delivery' =
                            [sftp |-> IF ~ob_in.use_sftp THEN "none"
                                      ELSE IF sftp_ok THEN "ok" ELSE "failed",
                             fallback |-> IF ~ob_in.use_sftp \/ sftp_ok THEN "none"
                                          ELSE IF fallback_ok THEN "ok" ELSE "failed"]
                      /\ generated_files' =
                            IF uploaded = "raised" THEN generated_files
                            ELSE Append(generated_files, uploaded)
    /\ UNCHANGED << outsideOut, ob_in, ob_end, ob_exit, ob_api_calls, ob_status, ob_emails >>

\* the final email and the return to main
SendSummary ==
    /\ ob_pc = "email"
    /\ ob_pc' = "done"
    /\ ob_end' = "completed"
    /\ ob_exit' = <<0>>
    /\ IF generated_files # <<>>
       THEN \E outcome \in {"sent", "failed", "disabled"} :
              ob_emails' = Append(ob_emails,
                  [attachments |-> SummaryAttachments(generated_files), outcome |-> outcome])
       ELSE UNCHANGED ob_emails
    /\ UNCHANGED << outsideOut, ob_in, ob_api_calls, ob_status, ob_artifact, ob_delivery,
                    generated_files >>

OutNext ==
    \/ Main
    \/ InboundFlow
    \/ OutboundConfig
    \/ CallApi
    \/ ConvertAndDeliver
    \/ SendSummary

OutSpec == OutInit /\ [][OutNext]_outVars

\* the invocation is the outbound pipeline and got past the command line
OutboundRun == ob_in.args >= UsageArgs /\ ob_in.direction = "outbound"

\* the artifact has no data row
ZeroRows(file) == \A i \in 1..Len(file.lines) : file.lines[i] # "row"

\* delivery through the transfer channel or its fallback was tried
DeliveryTried == ob_delivery # NoDelivery

FatalConfig ==
    \/ ob_in.converter # "ok"
    \/ ob_in.direction = "outbound" /\ ob_in.payload # "ok"

\* nothing of the flow has happened
NothingDone ==
    /\ ob_api_calls = 0
    /\ ob_artifact = NoArtifact
    /\ ~DeliveryTried
    /\ generated_files = <<>>
    /\ ob_emails = <<>>

\* C25: a fatal configuration error (missing converter or payload file key,
\* unresolved converter, payload file that does not exist) aborts the flow
\* invocation at once, with no API call, conversion, delivery or email, and the
\* process exits with a non-zero code, inbound and outbound.
C25_FatalConfigAborts ==
    (ob_in.args >= UsageArgs /\ ob_in.direction \in {"inbound", "outbound"} /\ FatalConfig) =>
        /\ NothingDone
        /\ ob_pc \notin {"api", "convert", "email"}
        /\ ob_pc = "done" => (ob_exit # <<>> /\ ob_exit # <<0>>)

\* C26: the CLI returns 2 exactly when fewer than three arguments are given, 1 when
\* the flow invocation ends in any other fatal error (a direction that is neither
\* inbound nor outbound included), and 0 when the run completes.
C26_ExitCodes ==
    ob_pc = "done" =>
        /\ ob_exit = <<2>> <=> ob_in.args < UsageArgs
        /\ ob_end \in {"error", "config"} => ob_exit = <<1>>
        /\ (ob_in.args >= UsageArgs /\ ob_in.direction = "sideways") => ob_exit = <<1>>
        /\ ob_end = "completed" => ob_exit = <<0>>

\* C27: when the remote delivery of an artifact fails it is copied to the local
\* fallback destination, still counted as delivered (listed and attached in the
\* summary email), and the run does not fail; it is left out of the delivered list
\* only when the fallback copy fails too.
C27_FallbackDelivers ==
    (ob_pc = "done" /\ ob_delivery.sftp = "failed") =>
        /\ ob_delivery.fallback # "none"
        /\ ob_exit = <<0>>
        /\ ob_delivery.fallback = "ok" =>
              /\ generated_files = <<"fallback_copy">>
              /\ Len(ob_emails) = 1
              /\ ob_emails[1].attachments = <<"fallback_copy">>
        /\ generated_files = <<>> <=> ob_delivery.fallback = "failed"

\* C27 witness: the upload failed, the local copy worked, and the summary email
\* with the copy attached was sent
C27_Witness ==
    /\ ob_pc = "done"
    /\ ob_delivery = [sftp |-> "failed", fallback |-> "ok"]
    /\ generated_files = <<"fallback_copy">>
    /\ Len(ob_emails) = 1
    /\ ob_emails[1].outcome = "sent"
    /\ ob_exit = <<0>>

\* C28: an outbound run sends the summary email exactly once, after all deliveries,
\* with every delivered artifact attached, if at least one artifact was produced and
\* delivered; it sends none when no artifact was produced; a failure to send the
\* email does not fail the run.
C28_OneSummary ==
    /\ ob_pc # "done" => ob_emails = <<>>
    /\ (ob_pc = "done" /\ generated_files # <<>>) =>
          /\ Len(ob_emails) = 1
          /\ ob_emails[1].attachments = generated_files
          /\ ob_exit = <<0>>
    /\ generated_files = <<>> => ob_emails = <<>>

\* C28 witness: an artifact with data rows was delivered, the one summary email
\* carrying it failed to go out, and the run ended with exit code 0
C28_Witness ==
    /\ ob_pc = "done"
    /\ ~ZeroRows(ob_artifact)
    /\ generated_files = <<"dest_abs">>
    /\ Len(ob_emails) = 1
    /\ ob_emails[1].attachments = <<"dest_abs">>
    /\ ob_emails[1].outcome = "failed"
    /\ ob_exit = <<0>>

Is2xxStatus(st) == 200 <= st /\ st < 300

\* C29: in the outbound pipeline a retryable failure of the API call (timeout,
\* transfer error, non-2xx response) is retried according to the flow's retry policy
\* and does not by itself abort the run, and any 2xx response is accepted as success.
C29_OutboundRetries ==
    (ob_pc = "done" /\ OutboundRun /\ ob_api_calls > 0) =>
        /\ Is2xxStatus(ob_status) => ob_end = "completed"
        /\ ~Is2xxStatus(ob_status) => ob_api_calls = ob_in.max_attempts
        /\ ob_end # "api"

(* ============== OAuthClient.get_token under two callers ============== *)
\* variant: a save leaves a cached token that has not expired in place
SaveCache_KeepUnexpired(cache, token_data, now) ==
    IF cache.state = "token" /\ cache.expires_at > now THEN cache ELSE token_data

\* _save_cache: self._cache = token_data
SaveCache(cache, token_data, now) == token_data

\* a new call may begin: always when calls interleave, otherwise only when no other
\* call is under way
MayBegin(c) ==
    rc_mode = "interleaved" \/ \A d \in Callers \ {c} : rc_pc[d] = "idle"

RaceInit ==
    /\ OnlyRace
    /\ rc_pc = [c \in Callers |-> "idle"]
    /\ rc_mode \in {"sequential", "interleaved"}
    /\ rc_now = 0
    /\ rc_cache = EmptyDict
    /\ rc_pending = [c \in Callers |-> EmptyDict]
    /\ rc_issued = 0
    /\ rc_returned = [c \in Callers |-> 0]
    /\ rc_dups = 0
    /\ rc_writer = 0

RaceTick ==
    /\ rc_now < MaxTime
    /\ rc_now' = rc_now + 1
    /\ UNCHANGED << outsideRace, rc_pc, rc_mode, rc_cache, rc_pending, rc_issued,
                    rc_returned, rc_dups, rc_writer >>

\* get_token up to the request: the cached token is returned, or the miss is seen
CheckCache(c) ==
    /\ rc_pc[c] = "idle"
    /\ MayBegin(c)
    /\ IF CacheValid(rc_cache, rc_now)
       THEN /\ rc_returned' = [rc_returned EXCEPT ![c] = rc_cache.access_token]
            /\ UNCHANGED rc_pc
       ELSE /\ rc_issued < MaxTokens
            /\ rc_pc' = [rc_pc EXCEPT ![c] = "request"]
            /\ UNCHANGED rc_returned
    /\ UNCHANGED << outsideRace, rc_mode, rc_now, rc_cache, rc_pending, rc_issued,
                    rc_dups, rc_writer >>

\* requests.post to the token endpoint and the building of the cache record; a
\* failed request ends the call with an exception
RequestToken(c) ==
    /\ rc_pc[c] = "request"
    /\ \/ /\ rc_issued < MaxTokens
          /\ \E expires_in \in ExpiresIn \ {NoExpiresIn} :
                rc_pending' = [rc_pending EXCEPT
                    ![c] = TokenData(rc_issued + 1, rc_now + Lifetime(expires_in) - Margin)]
          /\ rc_issued' = rc_issued + 1
          /\ rc_pc' = [rc_pc EXCEPT ![c] = "save"]
       \/ /\ rc_pc' = [rc_pc EXCEPT ![c] = "idle"]
          /\ UNCHANGED << rc_pending, rc_issued >>
    /\ UNCHANGED << outsideRace, rc_mode, rc_now, rc_cache, rc_returned, rc_dups, rc_writer >>

\* _save_cache and the return of the new token
SaveAndReturn(c) ==
    /\ rc_pc[c] = "save"
    /\ rc_cache' = SaveCache(rc_cache, rc_pending[c], rc_now)
    /\ rc_dups' = IF CacheValid(rc_cache, rc_now) THEN rc_dups + 1 ELSE rc_dups
    /\ rc_writer' = rc_pending[c].access_token
    /\ rc_returned' = [rc_returned EXCEPT ![c] = rc_pending[c].access_token]
    /\ rc_pending' = [rc_pending EXCEPT ![c] = EmptyDict]
    /\ rc_pc' = [rc_pc EXCEPT ![c] = "idle"]
    /\ UNCHANGED << outsideRace, rc_mode, rc_now, rc_issued >>

RaceNext ==
    \/ RaceTick
    \/ \E c \in Callers : CheckCache(c)
    \/ \E c \in Callers : RequestToken(c)
    \/ \E c \in Callers : SaveAndReturn(c)

RaceSpec == RaceInit /\ [][RaceNext]_raceVars

\* C31: the check-then-update of the token cache is not atomic: under strictly
\* sequential use no exchange is made while a cached token is unexpired (no save
\* replaces an unexpired token), while interleaved callers can both see the miss and
\* both exchange; in every case the token of the last writer is the one cached.
C31_DuplicateOnlyWhenInterleaved ==
    /\ rc_mode = "sequential" => rc_dups = 0
    /\ rc_mode = "sequential" =>
          \A c \in Callers : rc_pc[c] # "idle" => ~CacheValid(rc_cache, rc_now)
    /\ rc_writer # 0 => (rc_cache.state = "token" /\ rc_cache.access_token = rc_writer)

\* C31 witness: two interleaved callers both saw the empty cache, both got a token
\* from the endpoint, the second save replaced a token that had not expired, and
\* the cache holds the token of the last writer
C31_Witness ==
    /\ rc_mode = "interleaved"
    /\ rc_issued = 2
    /\ rc_dups = 1
    /\ rc_returned[1] # 0
    /\ rc_returned[2] # 0
    /\ rc_returned[1] # rc_returned[2]
    /\ rc_cache.state = "token"
    /\ rc_cache.access_token = rc_writer
    /\ \A c \in Callers : rc_pc[c] = "idle"

(* ============== InboundProcessor.process: the split directory ============== *)
\* names of unit files, "<key>.txt"
UnitNames == { "A", "B" }

\* the lists of unit files a split can create
UnitLists ==
    { <<>> } \cup { <<n>> : n \in UnitNames }
    \cup { q \in UnitNames \X UnitNames : q[1] # q[2] }

\* the directory after the files of names were written for the file owner
WriteUnits(dir, names, owner) ==
    [n \in DOMAIN dir \cup { names[i] : i \in 1..Len(names) } |->
        IF \E i \in 1..Len(names) : names[i] = n THEN owner ELSE dir[n]]

\* the directory after os.remove(piece)
RemoveUnit(dir, name) == [n \in DOMAIN dir \ {name} |-> dir[n]]

CleanInit ==
    /\ OnlyClean
    /\ cl_pc = "file"
    /\ cl_fi = 0
    /\ cl_splits = <<>>
    /\ cl_pi = 0
    /\ created_split_out = FALSE
    /\ cl_dir = EmptySplitDir
    /\ cl_outcomes = <<>>

\* the next file of the loop is split: the splitter returns its unit files, or it
\* raises after it has written some of them, and then created_split_out stays None,
\* the loop over the pieces is not entered and the file is finished by the handler
\* of the file
SplitFile ==
    /\ cl_pc = "file"
    /\ cl_fi < MaxFiles
    /\ cl_fi' = cl_fi + 1
    /\ cl_pi' = 0
    /\ cl_outcomes' = <<>>
    /\ \E names \in UnitLists :
          \/ /\ cl_dir' = WriteUnits(cl_dir, names, cl_fi')
             /\ cl_splits' = names
             /\ created_split_out' = TRUE
             /\ cl_pc' = "piece"
          \/ \E k \in 0..Len(names) :
                /\ cl_dir' = WriteUnits(cl_dir, SubSeq(names, 1, k), cl_fi')
                /\ cl_splits' = <<>>
                /\ created_split_out' = FALSE
                /\ cl_pc' = "file"
    /\ UNCHANGED outsideClean

\* one piece: converted and posted, or failed in one of the two, and then the
\* finally block that removes it; an exception of os.remove is passed over
HandlePiece ==
    /\ cl_pc = "piece"
    /\ cl_pi < Len(cl_splits)
    /\ cl_pi' = cl_pi + 1
    /\ \E outcome \in {"success", "conversion_failed", "post_failed"}, removed \in BOOLEAN :
          /\ cl_outcomes' = Append(cl_outcomes, outcome)
          /\ cl_dir' = IF created_split_out /\ removed /\ cl_splits[cl_pi'] \in DOMAIN cl_dir
                        THEN RemoveUnit(cl_dir, cl_splits[cl_pi'])
                        ELSE cl_dir
    /\ UNCHANGED << outsideClean, cl_pc, cl_fi, cl_splits, created_split_out >>

\* end for pieces; move and email of the file
EndOfFile ==
    /\ cl_pc = "piece"
    /\ cl_pi = Len(cl_splits)
    /\ cl_pc' = "file"
    /\ UNCHANGED << outsideClean, cl_fi, cl_splits, cl_pi, created_split_out, cl_dir,
                    cl_outcomes >>

\* after the loop over the files: shutil.rmtree(split_out, ignore_errors=True)
CleanupSplitFolder ==
    /\ cl_pc = "file"
    /\ cl_fi = MaxFiles
    /\ cl_pc' = "done"
    /\ \E removed \in BOOLEAN : cl_dir' = IF removed THEN EmptySplitDir ELSE cl_dir
    /\ UNCHANGED << outsideClean, cl_fi, cl_splits, cl_pi, created_split_out, cl_outcomes >>

CleanNext ==
    \/ SplitFile
    \/ HandlePiece
    \/ EndOfFile
    \/ CleanupSplitFolder

CleanSpec == CleanInit /\ [][CleanNext]_cleanVars

\* C32: after a file has completed processing, none of its transient split unit
\* files remains in the split directory, whether its units succeeded, failed in
\* conversion or failed in posting, and before the next file is split.
C32_NoUnitFileLeft ==
    (cl_pc \in {"file", "done"} /\ cl_fi >= 1) =>
        \A n \in DOMAIN cl_dir : cl_dir[n] # cl_fi

====
